---------------------------- MODULE Spec2Model ----------------------------
(***************************************************************************)
(* A model of the cocoscrabble ratings calculator (src/rating.py): the     *)
(* player list, the csv results reader, the seeding loop for unrated       *)
(* players and the single-player rating update.                            *)
(*                                                                         *)
(* Numbers.  The code computes in Python floats; the model computes the    *)
(* same expressions in exact rational arithmetic.                          *)
(*   - a rating is a rational [num, den] (the seeding average is a sum     *)
(*     divided by the number of players, everything else is an integer);   *)
(*   - a deviation is held as its VARIANCE in units of 1/10000, i.e. the   *)
(*     square of the deviation counted in hundredths.  The code only ever  *)
(*     uses sigma ** 2, rounds a new deviation to two decimals and         *)
(*     inflates by sqrt(sigma^2 + 100 * days), so the variance is always   *)
(*     an integer in these units while the deviation itself need not be    *)
(*     a decimal fraction (150.0 is held as 15000 * 15000);                *)
(*   - products exceed 32 bits, so the update is evaluated on unbounded    *)
(*     naturals kept as little-endian digit sequences in base 10000.       *)
(*   - round() is Python 3's: to the nearest integer, ties to even.        *)
(***************************************************************************)
EXTENDS Integers, Sequences, FiniteSets, TLC

(***************************************************************************)
(* Unbounded naturals: little-endian digit sequences, no leading zeros.    *)
(***************************************************************************)
BASE == 100 * 100

RECURSIVE BigNorm(_)
BigNorm(a) ==
    IF a = <<>> THEN <<>>
    ELSE IF a[Len(a)] = 0 THEN BigNorm(SubSeq(a, 1, Len(a) - 1))
    ELSE a

RECURSIVE BigFromNat(_)
BigFromNat(n) ==
    IF n = 0 THEN <<>> ELSE <<n % BASE>> \o BigFromNat(n \div BASE)

RECURSIVE BigAddC(_, _, _)
BigAddC(a, b, c) ==
    IF a = <<>> /\ b = <<>> THEN (IF c = 0 THEN <<>> ELSE <<c>>)
    ELSE LET x == IF a = <<>> THEN 0 ELSE Head(a)
             y == IF b = <<>> THEN 0 ELSE Head(b)
             t == x + y + c
         IN  <<t % BASE>> \o BigAddC(IF a = <<>> THEN <<>> ELSE Tail(a),
                                     IF b = <<>> THEN <<>> ELSE Tail(b),
                                     t \div BASE)

BigAdd(a, b) == BigAddC(a, b, 0)

\* a - b for a >= b
RECURSIVE BigSubC(_, _, _)
BigSubC(a, b, c) ==
    IF a = <<>> THEN <<>>
    ELSE LET y == IF b = <<>> THEN 0 ELSE Head(b)
             t == Head(a) - y - c
         IN  <<IF t < 0 THEN t + BASE ELSE t>>
             \o BigSubC(Tail(a), IF b = <<>> THEN <<>> ELSE Tail(b),
                        IF t < 0 THEN 1 ELSE 0)

BigSub(a, b) == BigNorm(BigSubC(a, b, 0))

\* a * n for a small natural n (n * BASE stays below 2^31)
RECURSIVE BigMulSmallC(_, _, _)
BigMulSmallC(a, n, c) ==
    IF a = <<>> THEN BigFromNat(c)
    ELSE LET t == Head(a) * n + c
         IN  <<t % BASE>> \o BigMulSmallC(Tail(a), n, t \div BASE)

BigMulSmall(a, n) == IF n = 0 THEN <<>> ELSE BigMulSmallC(a, n, 0)

RECURSIVE BigMul(_, _)
BigMul(a, b) ==
    IF b = <<>> \/ a = <<>> THEN <<>>
    ELSE BigAdd(BigMulSmall(a, Head(b)),
                LET r == BigMul(a, Tail(b))
                IN  IF r = <<>> THEN <<>> ELSE <<0>> \o r)

\* -1, 0, 1 as a < b, a = b, a > b
RECURSIVE BigCmpFrom(_, _, _)
BigCmpFrom(a, b, i) ==
    IF i = 0 THEN 0
    ELSE IF a[i] < b[i] THEN -1
    ELSE IF a[i] > b[i] THEN 1
    ELSE BigCmpFrom(a, b, i - 1)

BigCmp(a, b) ==
    IF Len(a) < Len(b) THEN -1
    ELSE IF Len(a) > Len(b) THEN 1
    ELSE BigCmpFrom(a, b, Len(a))

BigLeq(a, b) == BigCmp(a, b) <= 0

(***************************************************************************)
(* Signed unbounded integers: [neg, mag].                                  *)
(***************************************************************************)
SBig(neg, mag) == [neg |-> neg /\ mag # <<>>, mag |-> mag]

SFromInt(n) == IF n < 0 THEN SBig(TRUE, BigFromNat(-n))
               ELSE SBig(FALSE, BigFromNat(n))

SAdd(x, y) ==
    IF x.neg = y.neg THEN SBig(x.neg, BigAdd(x.mag, y.mag))
    ELSE IF BigCmp(x.mag, y.mag) >= 0 THEN SBig(x.neg, BigSub(x.mag, y.mag))
    ELSE SBig(y.neg, BigSub(y.mag, x.mag))

SNeg(x) == SBig(~x.neg, x.mag)

SMul(x, y) == SBig(x.neg # y.neg, BigMul(x.mag, y.mag))

\* x < y
SLess(x, y) ==
    IF x.neg /\ ~y.neg THEN TRUE
    ELSE IF ~x.neg /\ y.neg THEN FALSE
    ELSE IF x.neg THEN BigCmp(x.mag, y.mag) > 0
    ELSE BigCmp(x.mag, y.mag) < 0

\* the largest n in lo..hi-1 with Ok(n), given Ok(lo), ~Ok(hi) and Ok monotone
RECURSIVE BigSearch(_, _, _)
BigSearch(Ok(_), lo, hi) ==
    IF hi - lo <= 1 THEN lo
    ELSE LET mid == (lo + hi) \div 2
         IN  IF Ok(mid) THEN BigSearch(Ok, mid, hi) ELSE BigSearch(Ok, lo, mid)

\* the first power-of-two multiple of start for which Ok fails
RECURSIVE BigBracket(_, _)
BigBracket(Ok(_), n) == IF Ok(n) THEN BigBracket(Ok, 2 * n) ELSE n

\* floor(n / d) for naturals n, d with d > 0 and a quotient below 2^17
BigFloorDiv(n, d) ==
    LET Ok(q) == BigLeq(BigMulSmall(d, q), n)
    IN  BigSearch(Ok, 0, BigBracket(Ok, 1))

\* Python's round(n / d) for naturals: nearest integer, ties to even
BigRoundDiv(n, d) ==
    LET Tie(q, c) == IF c < 0 THEN q
                     ELSE IF c > 0 THEN q + 1
                     ELSE IF q % 2 = 0 THEN q ELSE q + 1
        \* c compares twice the remainder with the divisor
        Rem(q) == Tie(q, BigCmp(BigMulSmall(BigSub(n, BigMulSmall(d, q)), 2), d))
    IN  Rem(BigFloorDiv(n, d))

\* round(x / d) for a signed x: rounding to even is symmetric about zero
SRoundDiv(x, d) ==
    IF x.neg THEN 0 - BigRoundDiv(x.mag, d) ELSE BigRoundDiv(x.mag, d)

\* round(sqrt(p / b)) for naturals p, b with b > 0: the largest d with
\* (2d - 1)^2 * b <= 4 * p
BigRoundSqrt(p, b) ==
    LET p4    == BigMulSmall(p, 4)
        Ok(d) == d = 0 \/ BigLeq(BigMulSmall(BigMulSmall(b, 2 * d - 1), 2 * d - 1), p4)
    IN  BigSearch(Ok, 0, BigBracket(Ok, 1))

(***************************************************************************)
(* Ratings: rationals in lowest terms with small numerator and denominator.*)
(***************************************************************************)
RECURSIVE GCD(_, _)
GCD(a, b) == IF b = 0 THEN a ELSE GCD(b, a % b)

Abs(n) == IF n < 0 THEN -n ELSE n

Rat(n, d) == LET g == GCD(Abs(n), d) IN [num |-> n \div g, den |-> d \div g]

RatInt(n) == [num |-> n, den |-> 1]

RatLess(a, b) == a.num * b.den < b.num * a.den

RatLeq(a, b) == a.num * b.den <= b.num * a.den

RatAdd(a, b) == Rat(a.num * b.den + b.num * a.den, a.den * b.den)

RatSub(a, b) == Rat(a.num * b.den - b.num * a.den, a.den * b.den)

RatAbs(a) == [num |-> Abs(a.num), den |-> a.den]

RatIsInt(a) == a.den = 1

(***************************************************************************)
(* Program constants.  Deviations are counted in hundredths.               *)
(***************************************************************************)
MAX_DEVIATION == 15000          \* 150.0

UNRATED_INIT_RATING == 1500

MAX_ITERATIONS == 50

MANUAL_SEED == 1500

tau == 90

beta == 5

RATING_FLOOR == 300             \* max(round(mu_prime), 300)

SENTINEL_RATING == 100          \* set_init_rating: rating < 100

\* EPS = 0.0001 as the rational 1 / EPS_INV
EPS_INV == 10000

\* the variance (units of 1/10000) of a deviation given in hundredths
Var(dev) == dev * dev

MAX_VARIANCE == Var(MAX_DEVIATION)

(***************************************************************************)
(* Player (src/rating.py).  A player is a record; the player list maps     *)
(* names to players, and a game names its opponent.                        *)
(***************************************************************************)
GameResult(round, opponent, score, opp_score) ==
    [round |-> round, opponent |-> opponent, score |-> score, opp_score |-> opp_score]

\* the spread taken from the opponent's side
SpreadReversed(g) == g.opp_score - g.score

\* GameResult.spread
Spread(g) == g.score - g.opp_score

\* set_init_rating storing whatever it is given
set_init_rating_as_given(p, rating, dev) ==
    [p EXCEPT !.init_rating = rating,
              !.init_rating_deviation = dev,
              !.new_rating = rating,
              !.new_rating_deviation = dev]

\* Player.set_init_rating(rating, dev): rating a rational, dev a variance
set_init_rating(p, rating, dev) ==
    LET low == RatLess(rating, RatInt(SENTINEL_RATING))
    IN  [p EXCEPT
           !.init_rating = IF low THEN RatInt(UNRATED_INIT_RATING) ELSE rating,
           !.is_unrated = IF low THEN TRUE ELSE @,
           !.init_rating_deviation = IF dev = 0 THEN MAX_VARIANCE ELSE dev,
           !.new_rating = rating,
           !.new_rating_deviation = dev]

\* Player.__init__
NewPlayer(name, init_rating, init_rating_deviation, career_games, is_unrated, last_played) ==
    LET blank == [name |-> name,
                  career_games |-> career_games,
                  is_unrated |-> is_unrated,
                  init_rating |-> RatInt(0),
                  init_rating_deviation |-> 0,
                  new_rating |-> RatInt(0),
                  new_rating_deviation |-> 0,
                  last_played |-> last_played,
                  wins2 |-> 0,       \* twice the wins: a tie counts 0.5
                  losses2 |-> 0,
                  spread |-> 0,
                  games |-> <<>>]
        p == set_init_rating(blank, init_rating, init_rating_deviation)
    IN  [p EXCEPT !.new_rating = RatInt(0), !.new_rating_deviation = 0]

(***************************************************************************)
(* RatingsCalculator (src/rating.py).                                      *)
(***************************************************************************)
RatMin(a, b) == IF RatLess(b, a) THEN b ELSE a

\* a multiplier whose career games override begins at 100 games
player_multiplier_from_100(p) ==
    LET base == IF RatLess(RatInt(2000), p.init_rating) THEN Rat(1, 2)
                ELSE IF RatLess(RatInt(1800), p.init_rating) THEN Rat(3, 4)
                ELSE RatInt(1)
    IN  IF p.career_games <= 100 THEN RatInt(1)
        ELSE IF p.career_games > 1000 THEN Rat(1, 2)
        ELSE RatMin(base, Rat(1800 - p.career_games, 1800))

\* RatingsCalculator._player_multiplier, a rational
player_multiplier(p) ==
    LET base == IF RatLess(RatInt(2000), p.init_rating) THEN Rat(1, 2)
                ELSE IF RatLess(RatInt(1800), p.init_rating) THEN Rat(3, 4)
                ELSE RatInt(1)
    IN  IF p.career_games < 200 THEN RatInt(1)
        ELSE IF p.career_games > 1000 THEN Rat(1, 2)
        ELSE IF p.career_games > 100
             THEN RatMin(base, Rat(1800 - p.career_games, 1800))
        ELSE base

\* the skip test without its forfeit clauses: a game with a score of 0 counts
CountedWithForfeits(p, g) == g.opponent # p.name

\* a skip test that skips every game
CountedNever(p, g) == FALSE

\* the games counted by calc_new_rating_for_player: not a bye, not a forfeit
Counted(p, g) == ~(g.opponent = p.name \/ g.opp_score = 0 \/ g.score = 0)

CountedGames(p) == SelectSeq(p.games, LAMBDA g : Counted(p, g))

\* g_rho = beta^2 * tau^2 + opponent_sigma^2, in units of 1/10000
Rho(opp) == BigAdd(BigMulSmall(BigFromNat(beta * beta * tau * tau), 10000),
                   BigFromNat(opp.init_rating_deviation))

\* a fraction num / den with a signed unbounded numerator
Frac(num, den) == [num |-> num, den |-> den]

FracAdd(x, y) ==
    IF x.den = y.den THEN Frac(SAdd(x.num, y.num), x.den)
    ELSE Frac(SAdd(SMul(x.num, SBig(FALSE, y.den)), SMul(y.num, SBig(FALSE, x.den))),
              BigMul(x.den, y.den))

FracZero == Frac(SFromInt(0), BigFromNat(1))

\* sum1 = sum(1 / rho) over the first n counted games
RECURSIVE Sum1(_, _, _)
Sum1(ps, gs, n) ==
    IF n = 0 THEN FracZero
    ELSE FracAdd(Sum1(ps, gs, n - 1),
                 Frac(SFromInt(1), Rho(ps[gs[n].opponent])))

\* the sum of opponent_mu / rho: nu without beta * spread
RECURSIVE Sum2NoSpread(_, _, _)
Sum2NoSpread(ps, gs, n) ==
    IF n = 0 THEN FracZero
    ELSE FracAdd(Sum2NoSpread(ps, gs, n - 1),
                 Frac(SFromInt(ps[gs[n].opponent].init_rating.num),
                      BigMulSmall(Rho(ps[gs[n].opponent]),
                                  ps[gs[n].opponent].init_rating.den)))

\* sum2 = sum(nu / rho) over the first n counted games,
\* nu = opponent_mu + beta * spread
RECURSIVE Sum2(_, _, _)
Sum2(ps, gs, n) ==
    IF n = 0 THEN FracZero
    ELSE LET opp == ps[gs[n].opponent]
             nu  == RatAdd(opp.init_rating, RatInt(beta * Spread(gs[n])))
         IN  FracAdd(Sum2(ps, gs, n - 1),
                     Frac(SFromInt(nu.num), BigMulSmall(Rho(opp), nu.den)))

\* round(mu_prime) taken as it is, without the floor
FloorRatingNoFloor(r) == r

\* max(round(mu_prime), 300)
FloorRating(r) == IF r < RATING_FLOOR THEN RATING_FLOOR ELSE r

\* calc_new_rating_for_player: the values it assigns to new_rating and
\* new_rating_deviation, or error = TRUE when 1.0 / (sigma ** 2) divides by
\* zero and nothing is assigned
calc_new_rating(ps, name) ==
    LET player == ps[name]
        mu     == player.init_rating
        m      == player_multiplier(player)
        \* mu_prime = mu + (mu_prime - mu) * multiplier, then rounded and floored
        Adjust(mup_num, mup_den) ==
            FloorRating(SRoundDiv(
                SAdd(SMul(SFromInt((m.den - m.num) * mu.num), SBig(FALSE, mup_den)),
                     SMul(SFromInt(m.num * mu.den), mup_num)),
                BigMulSmall(mup_den, m.den * mu.den)))
        \* invsp = invsigma_prime = 1 / sigma^2 + sum1, sigma_prime = 1 / invsp;
        \* inner = mu / sigma^2 + sum2, mu_prime = sigma_prime * inner
        Update(invsp, inner) ==
            [error |-> FALSE,
             new_rating |-> RatInt(Adjust(SMul(inner.num, SBig(FALSE, invsp.den)),
                                          BigMul(inner.den, invsp.num.mag))),
             new_rating_deviation |-> Var(BigRoundSqrt(invsp.den, invsp.num.mag))]
        Sums(sigma2, games) ==
            Update(FracAdd(Frac(SFromInt(1), sigma2), Sum1(ps, games, Len(games))),
                   FracAdd(Frac(SFromInt(mu.num), BigMulSmall(sigma2, mu.den)),
                           Sum2(ps, games, Len(games))))
    IN  IF player.init_rating_deviation = 0
        THEN [error |-> TRUE, new_rating |-> player.new_rating,
              new_rating_deviation |-> player.new_rating_deviation]
        ELSE Sums(BigFromNat(player.init_rating_deviation), CountedGames(player))

(***************************************************************************)
(* Dates are day numbers; day 0 is 1999-12-31, the default last_played.    *)
(***************************************************************************)
DEFAULT_LAST_PLAYED == 0

\* c in adjust_initial_deviation
c_inactive == 10

\* Player.new_unrated
new_unrated(name, today) ==
    NewPlayer(name, RatInt(UNRATED_INIT_RATING), MAX_VARIANCE, 0, TRUE, today)

\* Player.adjust_initial_deviation: [error, player].  math.sqrt of a negative
\* number raises ValueError, which show_exception re-raises.
adjust_initial_deviation(p, tournament_date) ==
    LET inactive_days == tournament_date - p.last_played
        step == c_inactive * c_inactive * 10000      \* variance per day
        \* min(sqrt(v), MAX_DEVIATION): beyond this many days the minimum is
        \* MAX_DEVIATION whatever the deviation was
        v    == p.init_rating_deviation + step * inactive_days
    IN  IF inactive_days >= MAX_VARIANCE \div step
        THEN [error |-> FALSE, player |-> [p EXCEPT !.init_rating_deviation = MAX_VARIANCE]]
        ELSE IF v < 0 THEN [error |-> TRUE, player |-> p]
        ELSE [error |-> FALSE,
              player |-> [p EXCEPT !.init_rating_deviation =
                                      IF v < MAX_VARIANCE THEN v ELSE MAX_VARIANCE]]

\* Player.add_game_result
add_game_result(p, spr) ==
    [p EXCEPT !.spread = @ + spr,
              !.wins2 = @ + (IF spr = 0 THEN 1 ELSE IF spr > 0 THEN 2 ELSE 0),
              !.losses2 = @ + (IF spr = 0 THEN 1 ELSE IF spr > 0 THEN 0 ELSE 2)]

\* Player.update_career_games: game.opponent is a Player, so the comparison
\* with the string 'Zz Bye' never excludes a game
RECURSIVE update_career_games(_, _)
update_career_games(p, n) ==
    IF n = 0 THEN p
    ELSE LET q == update_career_games(p, n - 1)
         IN  IF p.games[n].opponent # p.name
             THEN [q EXCEPT !.career_games = @ + 1] ELSE q

RECURSIVE add_game_results(_, _)
add_game_results(p, n) ==
    IF n = 0 THEN p
    ELSE add_game_result(add_game_results(p, n - 1), Spread(p.games[n]))

\* Player.tally_results
tally_results(p) ==
    add_game_results(update_career_games(p, Len(p.games)), Len(p.games))

\* Player.get_opponents
get_opponents(p) == [i \in 1..Len(p.games) |-> p.games[i].opponent]

(***************************************************************************)
(* PlayerList: a dict, i.e. a function from the names it holds to players  *)
(* together with the order in which the names were inserted.               *)
(***************************************************************************)
Put(f, k, v) == [x \in DOMAIN f \cup {k} |-> IF x = k THEN v ELSE f[x]]

\* PlayerList.find_or_add_player (with add_new_player)
find_or_add_player(pl, name, today) ==
    IF name \in DOMAIN pl.players THEN pl
    ELSE [pl EXCEPT !.players = Put(pl.players, name, new_unrated(name, today)),
                    !.order = Append(pl.order, name)]

\* player_for_name without player.last_played = self.tournament_date
player_for_name_unstamped(pl, name, tournament_date, today) ==
    LET pl1 == find_or_add_player(pl, name, today)
        p   == pl1.players[name]
        adj == IF p.is_unrated THEN [error |-> FALSE, player |-> p]
               ELSE adjust_initial_deviation(p, tournament_date)
    IN  IF pl1.error THEN pl1
        ELSE IF adj.error
        THEN [pl1 EXCEPT !.error = TRUE]
        ELSE [pl1 EXCEPT !.players[name] = adj.player]

\* ResultsReader.player_for_name: the player list afterwards; error when
\* adjust_initial_deviation raised (nothing after it is executed)
player_for_name(pl, name, tournament_date, today) ==
    LET pl1 == find_or_add_player(pl, name, today)
        p   == pl1.players[name]
        adj == IF p.is_unrated THEN [error |-> FALSE, player |-> p]
               ELSE adjust_initial_deviation(p, tournament_date)
    IN  IF pl1.error THEN pl1
        ELSE IF adj.error
        THEN [pl1 EXCEPT !.error = TRUE]
        ELSE [pl1 EXCEPT !.players[name] =
                            [adj.player EXCEPT !.last_played = tournament_date]]

\* RTFileReader._read_player on a row [name, career_games, rating,
\* last_played, deviation]; a deviation that does not parse is given as -1
read_player(row) ==
    NewPlayer(row.name, RatInt(row.rating),
              IF row.deviation < 0 THEN MAX_VARIANCE ELSE Var(row.deviation),
              row.career_games, FALSE, row.last_played)

\* CSVRatingsFileReader.parse_row on a row [name, rating]
csv_parse_row(row) ==
    NewPlayer(row.name, RatInt(row.rating), MAX_VARIANCE, 0, row.rating = 0,
              DEFAULT_LAST_PLAYED)

\* the rated players taken to be the whole section
get_players_as_rated(ps, sec) == sec

\* Section.get_rated_players / get_unrated_players over a list of names
get_rated_players(ps, sec) == SelectSeq(sec, LAMBDA n : ~ps[n].is_unrated)

\* every player of the section, rated or not
get_all_players(ps, sec) == sec

get_unrated_players(ps, sec) == SelectSeq(sec, LAMBDA n : ps[n].is_unrated)

(***************************************************************************)
(* The run: Tournament(ratings_file, result_file), calc_ratings(),         *)
(* output_ratfile().  The results file is a csv (ResultCSVReader), which   *)
(* gives one section, 'main'.                                              *)
(***************************************************************************)
VARIABLES
    ratfile,            \* the ratings file: [kind, rows], rows still to read
    resfile,            \* the results file: rows still to read
    tournament_date,
    players,            \* PlayerList.players: name -> Player
    order,              \* ... and the insertion order of its keys
    results,            \* ResultCSVReader.results: <<[name, games], ...>>
    section,            \* Section.players of section 'main': names
    pc,                 \* where the run is
    rated_opponent_avg, \* locals of calc_initial_ratings
    converged,
    iterations,
    todo,               \* the players the running for-loop has yet to visit
    output,             \* the rows output_ratfile wrote
    caller,             \* who built the Tournament: "run_cli", or for a PlayerDB
                        \* "process_one_tournament" or "by_hand"
    db,                 \* PlayerDB.players: name -> all_rating.Player
    tours,              \* the tournaments handed to the PlayerDB, in order
    tno,                \* how many of them have been begun
    lineno,             \* TouReader: the line parse_results is at
    parsed_sections,    \* TouReader.parsed_sections
    sections,           \* TouReader.sections: the names of each Section
    multiplier          \* what _player_multiplier returned, a rational

vars == <<ratfile, resfile, tournament_date, players, order, results, section,
          pc, rated_opponent_avg, converged, iterations, todo, output,
          caller, db, tours, tno, lineno, parsed_sections, sections, multiplier>>

dbvars == <<caller, db, tours, tno>>

touvars == <<lineno, parsed_sections, sections>>

seedvars == <<rated_opponent_avg, converged, iterations, todo>>

PL == [players |-> players, order |-> order, error |-> FALSE]

\* PlayerList.parse_ratfile, one row: players[p.name] = p
LoadRatingRow ==
    /\ pc = "load"
    /\ LET row == Head(ratfile.rows)
           p   == IF ratfile.kind = "rt" THEN read_player(row) ELSE csv_parse_row(row)
       IN  /\ players' = Put(players, p.name, p)
           /\ order' = IF p.name \in DOMAIN players THEN order ELSE Append(order, p.name)
    /\ ratfile' = [ratfile EXCEPT !.rows = Tail(@)]
    /\ pc' = IF Tail(ratfile.rows) = <<>> THEN "parse" ELSE "load"
    /\ UNCHANGED <<resfile, tournament_date, results, section, seedvars, output, dbvars, touvars, multiplier>>

\* results[name].append(g) on the defaultdict
RECURSIVE AppendGame(_, _, _)
AppendGame(res, name, g) ==
    IF res = <<>> THEN <<[name |-> name, games |-> <<g>>]>>
    ELSE IF Head(res).name = name
    THEN <<[Head(res) EXCEPT !.games = Append(@, g)]>> \o Tail(res)
    ELSE <<Head(res)>> \o AppendGame(Tail(res), name, g)

\* the clock: Player.new_unrated stamps datetime.today(), which
\* player_for_name overwrites at once
TodayChoices == {tournament_date, tournament_date + 1}

\* ResultCSVReader.parse_row
ParseRow ==
    /\ pc = "parse"
    /\ resfile # <<>>
    /\ \E today \in TodayChoices :
         LET row == Head(resfile)
             pl1 == player_for_name(PL, row.winner, tournament_date, today)
             pl2 == player_for_name(pl1, row.opp, tournament_date, today)
             g1  == GameResult(row.round, row.opp, row.win_score, row.opp_score)
             g2  == GameResult(row.round, row.winner, row.opp_score, row.win_score)
         IN  IF pl2.error
             THEN /\ pc' = "error"
                  /\ UNCHANGED <<players, order, results, resfile>>
             ELSE /\ players' = pl2.players
                  /\ order' = pl2.order
                  /\ results' = AppendGame(AppendGame(results, row.winner, g1), row.opp, g2)
                  /\ resfile' = Tail(resfile)
                  /\ pc' = "parse"
    /\ UNCHANGED <<ratfile, tournament_date, section, seedvars, output, dbvars, touvars, multiplier>>

\* the first loop after the rows: player.games = games; player.tally_results()
RECURSIVE TallyAll(_, _, _, _)
TallyAll(pl, res, date, today) ==
    IF res = <<>> \/ pl.error THEN pl
    ELSE LET pl1 == player_for_name(pl, Head(res).name, date, today)
             p   == [pl1.players[Head(res).name] EXCEPT !.games = Head(res).games]
         IN  IF pl1.error THEN pl1
             ELSE TallyAll([pl1 EXCEPT !.players[Head(res).name] = tally_results(p)],
                           Tail(res), date, today)

\* section.players = [self.player_for_name(name) for name in self.results]
RECURSIVE LookupAll(_, _, _, _)
LookupAll(pl, res, date, today) ==
    IF res = <<>> \/ pl.error THEN pl
    ELSE LookupAll(player_for_name(pl, Head(res).name, date, today), Tail(res), date, today)

\* ResultCSVReader.parse after the rows are read
ParseFinish ==
    /\ pc = "parse"
    /\ resfile = <<>>
    /\ \E today \in TodayChoices :
         LET pl1 == TallyAll(PL, results, tournament_date, today)
             pl2 == LookupAll(pl1, results, tournament_date, today)
         IN  IF pl2.error
             THEN /\ pc' = "error"
                  /\ UNCHANGED <<players, order, section>>
             ELSE /\ players' = pl2.players
                  /\ order' = pl2.order
                  /\ section' = [i \in 1..Len(results) |-> results[i].name]
                  /\ pc' = IF caller = "run_cli" THEN "calc" ELSE "constructed"
    /\ UNCHANGED <<ratfile, resfile, tournament_date, results, seedvars, output, dbvars, touvars, multiplier>>

RECURSIVE RatSum(_, _, _)
RatSum(ps, names, n) ==
    IF n = 0 THEN RatInt(0)
    ELSE RatAdd(RatSum(ps, names, n - 1), ps[names[n]].init_rating)

\* rated_opponent_avg of calc_initial_ratings, for a section with players
RatedOpponentAvg(ps, sec) ==
    LET rated == get_rated_players(ps, sec)
        sum   == RatSum(ps, rated, Len(rated))
        avg   == Rat(sum.num, sum.den * Len(sec))
    IN  IF RatLess(avg, RatInt(300)) THEN RatInt(MANUAL_SEED) ELSE avg

\* calc_initial_ratings up to the loop; an empty section divides by zero
SeedBegin ==
    /\ pc = "calc"
    /\ IF section = <<>>
       THEN /\ pc' = "error"
            /\ UNCHANGED seedvars
       ELSE /\ rated_opponent_avg' = RatedOpponentAvg(players, section)
            /\ converged' = FALSE
            /\ iterations' = 0
            /\ todo' = <<>>
            /\ pc' = "seed_while"
    /\ UNCHANGED <<ratfile, resfile, tournament_date, players, order, results,
                   section, output, dbvars, touvars, multiplier>>

\* while not converged and iterations < MAX_ITERATIONS; on exit
\* Tournament.calc_ratings goes on to the rated players
SeedWhile ==
    /\ pc = "seed_while"
    /\ IF ~converged /\ iterations < MAX_ITERATIONS
       THEN /\ converged' = TRUE
            /\ todo' = get_unrated_players(players, section)
            /\ pc' = "seed_for"
       ELSE /\ todo' = get_rated_players(players, section)
            /\ pc' = IF get_rated_players(players, section) = <<>> THEN "done" ELSE "rate"
            /\ UNCHANGED converged
    /\ UNCHANGED <<ratfile, resfile, tournament_date, players, order, results,
                   section, rated_opponent_avg, iterations, output, dbvars, touvars, multiplier>>

\* a reset test that one unrated opponent is enough for
UnratedAny(ps, p) == \E i \in DOMAIN p.games : ps[p.games[i].opponent].is_unrated

\* unrated_opps_pct >= 0.4, when there is an unrated opponent
UnratedDominant(ps, p) ==
    LET opps    == get_opponents(p)
        unrated == SelectSeq(opps, LAMBDA o : ps[o].is_unrated)
    IN  unrated # <<>> /\ 10 * Len(unrated) >= 4 * Len(opps)

\* a convergence test that any two ratings pass
WithinEpsAlways(a, b) == TRUE

\* abs(pre_rating - new_rating) < EPS
WithinEps(a, b) ==
    LET d == RatAbs(RatSub(a, b)) IN d.num * EPS_INV < d.den

\* the body of the for-loop of calc_initial_ratings for one unrated player:
\* [error, converged, players]
SeedBody(ps, name, avg, conv) ==
    LET \* ps1 holds pre_rating = p.init_rating; r is what the calculator assigned
        Store(ps1, r) ==
            IF r.error THEN [error |-> TRUE, converged |-> conv, players |-> ps1]
            ELSE [error |-> FALSE,
                  converged |-> conv /\ WithinEps(ps1[name].init_rating, r.new_rating),
                  players |-> [ps1 EXCEPT ![name] =
                      set_init_rating([@ EXCEPT !.new_rating = r.new_rating,
                                                !.new_rating_deviation = r.new_rating_deviation],
                                      r.new_rating, MAX_VARIANCE)]]
        Calc(ps1) == Store(ps1, calc_new_rating(ps1, name))
    IN  Calc(IF UnratedDominant(ps, ps[name])
             THEN [ps EXCEPT ![name] = set_init_rating(@, avg, MAX_VARIANCE)]
             ELSE ps)

SeedPlayer ==
    /\ pc = "seed_for"
    /\ todo # <<>>
    /\ \E b \in {SeedBody(players, Head(todo), rated_opponent_avg, converged)} :
           /\ players' = b.players
           /\ converged' = b.converged
           /\ pc' = IF b.error THEN "error" ELSE "seed_for"
    /\ todo' = Tail(todo)
    /\ UNCHANGED <<ratfile, resfile, tournament_date, order, results, section,
                   rated_opponent_avg, iterations, output, dbvars, touvars, multiplier>>

SeedIterEnd ==
    /\ pc = "seed_for"
    /\ todo = <<>>
    /\ iterations' = iterations + 1
    /\ pc' = "seed_while"
    /\ UNCHANGED <<ratfile, resfile, tournament_date, players, order, results,
                   section, rated_opponent_avg, converged, todo, output, dbvars, touvars, multiplier>>

\* a rating pass that feeds the new rating back as the seeding loop does
RateBodyFeedingBack(ps, name) ==
    LET Store(r) ==
            [error |-> r.error,
             players |-> [ps EXCEPT ![name].new_rating = r.new_rating,
                                    ![name].new_rating_deviation = r.new_rating_deviation,
                                    ![name].init_rating = r.new_rating]]
    IN  Store(calc_new_rating(ps, name))

\* rc.calc_new_rating_for_player(p) for one rated player of the section
RateBody(ps, name) ==
    LET Store(r) ==
            [error |-> r.error,
             players |-> [ps EXCEPT ![name].new_rating = r.new_rating,
                                    ![name].new_rating_deviation = r.new_rating_deviation]]
    IN  Store(calc_new_rating(ps, name))

RatePlayer ==
    /\ pc = "rate"
    /\ \E b \in {RateBody(players, Head(todo))} :
           /\ players' = b.players
           /\ pc' = IF b.error THEN "error"
                    ELSE IF Tail(todo) = <<>> THEN "done" ELSE "rate"
    /\ todo' = Tail(todo)
    /\ UNCHANGED <<ratfile, resfile, tournament_date, order, results, section,
                   rated_opponent_avg, converged, iterations, output, dbvars, touvars, multiplier>>

BYES == {"Yy bye", "A Bye", "B Bye", "ZZ Bye", "Zz Bye", "Zy bye", "Bye One",
         "Bye Two", "Bye Three", "Bye Four", "Y Bye", "Z Bye", "Bye"}

\* PlayerList.get_ranked_players: sorted by new_rating, highest first, stable
RECURSIVE InsertRanked(_, _, _)
InsertRanked(ps, ranked, name) ==
    IF ranked = <<>> THEN <<name>>
    ELSE IF RatLess(ps[Head(ranked)].new_rating, ps[name].new_rating)
    THEN <<name>> \o ranked
    ELSE <<Head(ranked)>> \o InsertRanked(ps, Tail(ranked), name)

RECURSIVE get_ranked_players(_, _, _)
get_ranked_players(ps, ord, n) ==
    IF n = 0 THEN <<>>
    ELSE InsertRanked(ps, get_ranked_players(ps, ord, n - 1), ord[n])

\* the row RTFileWriter.write formats for a player
RatfileRow(p) ==
    [name |-> p.name, career_games |-> p.career_games, new_rating |-> p.new_rating,
     last_played |-> p.last_played, new_rating_deviation |-> p.new_rating_deviation]

\* Tournament.output_ratfile
OutputRatfile ==
    /\ pc = "done"
    /\ caller = "run_cli"
    /\ LET ranked == SelectSeq(get_ranked_players(players, order, Len(order)),
                               LAMBDA n : n \notin BYES)
       IN  output' = [i \in 1..Len(ranked) |-> RatfileRow(players[ranked[i]])]
    /\ pc' = "written"
    /\ UNCHANGED <<ratfile, resfile, tournament_date, players, order, results,
                   section, seedvars, dbvars, touvars, multiplier>>

Next ==
    \/ LoadRatingRow
    \/ ParseRow
    \/ ParseFinish
    \/ SeedBegin
    \/ SeedWhile
    \/ SeedPlayer
    \/ SeedIterEnd
    \/ RatePlayer
    \/ OutputRatfile

(***************************************************************************)
(* Inputs: a ratings file, a results file and the tournament date.         *)
(***************************************************************************)
TOURNAMENT_DATE == 1000

\* the longest results file of Spec, in rows
MaxRows == 2

RtRow(name, career_games, rating, last_played, deviation) ==
    [name |-> name, career_games |-> career_games, rating |-> rating,
     last_played |-> last_played, deviation |-> deviation]

CsvRow(name, rating) == [name |-> name, rating |-> rating]

\* rows a .RT ratings file may hold for alice: established, inactive for a
\* week with a deviation of 60, low-rated with a deviation above the ceiling,
\* and a sentinel rating with no deviation
RtRowsAlice ==
    { RtRow("alice", 8, 1800, TOURNAMENT_DATE - 400, 15000),
      RtRow("alice", 150, 1500, TOURNAMENT_DATE - 7, 6000),
      RtRow("alice", 0, 250, TOURNAMENT_DATE, 20000),
      RtRow("alice", 300, 50, TOURNAMENT_DATE - 7, 0) }

RtRowsBecky == { RtRow("becky", 150, 1500, TOURNAMENT_DATE - 7, 6000) }

\* rows a csv ratings file may hold
CsvRowsAlice == { CsvRow("alice", 0), CsvRow("alice", 1500), CsvRow("alice", 2200) }

CsvRowsBecky == { CsvRow("becky", 1500) }

\* the files with at most one row for each of alice and becky, in that order
FilesOver(a, b) ==
    { x \o y : x \in {<<>>} \cup { <<r>> : r \in a },
               y \in {<<>>} \cup { <<r>> : r \in b } } \ {<<>>}

\* Tournament(ratings_file, ...): no ratings file, a .RT file or a csv file
RatingFiles ==
    {[kind |-> "none", rows |-> <<>>]}
    \cup { [kind |-> "rt", rows |-> f] : f \in FilesOver(RtRowsAlice, RtRowsBecky) }
    \cup { [kind |-> "csv", rows |-> f] : f \in FilesOver(CsvRowsAlice, CsvRowsBecky) }

ResultRow(round, winner, win_score, opp, opp_score) ==
    [round |-> round, winner |-> winner, win_score |-> win_score,
     opp |-> opp, opp_score |-> opp_score]

\* the games a results row may report (first player, score, second, score)
GameChoices ==
    { <<"alice", 400, "becky", 300>>,
      <<"alice", 300, "becky", 301>>,
      <<"alice", 300, "becky", 900>>,
      <<"alice", 400, "becky", 0>>,
      <<"becky", 300, "becky", 300>> }

GameRank(g) ==
    CASE g = <<"alice", 400, "becky", 300>> -> 1
      [] g = <<"alice", 300, "becky", 301>> -> 2
      [] g = <<"alice", 300, "becky", 900>> -> 3
      [] g = <<"alice", 400, "becky", 0>> -> 4
      [] OTHER -> 5

\* the game lists of at most n games, the games in the order of GameChoices
RECURSIVE GameSeqs(_)
GameSeqs(n) ==
    IF n = 0 THEN {<<>>}
    ELSE LET shorter == GameSeqs(n - 1)
         IN  shorter \cup
             { Append(s, g) : s \in { t \in shorter : Len(t) = n - 1 },
                              g \in GameChoices } 

Ordered(s) == \A i \in 1..Len(s) - 1 : GameRank(s[i]) <= GameRank(s[i + 1])

ResultFile(games) ==
    [i \in 1..Len(games) |->
        ResultRow(i, games[i][1], games[i][2], games[i][3], games[i][4])]

ResultFiles == { ResultFile(gs) : gs \in { s \in GameSeqs(MaxRows) : Ordered(s) } }

InitWith(rf, res) ==
    /\ ratfile = rf
    /\ resfile = res
    /\ tournament_date = TOURNAMENT_DATE
    /\ players = << >>
    /\ order = << >>
    /\ results = << >>
    /\ section = << >>
    /\ pc = IF rf.rows = <<>> THEN "parse" ELSE "load"
    /\ rated_opponent_avg = RatInt(0)
    /\ converged = FALSE
    /\ iterations = 0
    /\ todo = << >>
    /\ output = << >>
    /\ caller = "run_cli"
    /\ db = << >>
    /\ tours = << >>
    /\ tno = 0
    /\ lineno = 0
    /\ parsed_sections = << >>
    /\ sections = << >>
    /\ multiplier = RatInt(0)

Init == \E rf \in RatingFiles, res \in ResultFiles : InitWith(rf, res)

Spec == Init /\ [][Next]_vars

(***************************************************************************)
(* PlayerDB (src/all_rating.py): the registry carried from one tournament  *)
(* to the next.  Its methods are called by process_one_tournament, or one  *)
(* by one in the same order with t.calc_ratings() in between ("by_hand").  *)
(***************************************************************************)
\* all_rating.Player.from_tournament_player
from_tournament_player(p) ==
    [name |-> p.name, rating |-> p.new_rating, deviation |-> p.new_rating_deviation,
     games |-> p.career_games, last_played |-> p.last_played]

\* round(deviation, 2) of a deviation held as a variance
RoundDeviation(v) == Var(BigRoundSqrt(BigFromNat(v), BigFromNat(1)))

\* PlayerReport.from_tournament_player
report_from_tournament_player(p) ==
    [name |-> p.name, old_rating |-> p.init_rating, new_rating |-> p.new_rating,
     old_deviation |-> RoundDeviation(p.init_rating_deviation),
     new_deviation |-> RoundDeviation(p.new_rating_deviation),
     games |-> p.career_games]

\* an update that rebuilds the registry from the section alone
RECURSIVE db_update_section_only(_, _, _, _, _)
db_update_section_only(d, ps, sec, tname, n) ==
    IF n = 0 THEN [players |-> << >>, report |-> d.report]
    ELSE LET d1 == db_update_section_only(d, ps, sec, tname, n - 1)
             p  == ps[sec[n]]
             rep == IF p.name \in DOMAIN d1.report THEN d1.report[p.name] ELSE << >>
         IN  [players |-> Put(d1.players, p.name, from_tournament_player(p)),
              report |-> Put(d1.report, p.name,
                             Put(rep, tname, report_from_tournament_player(p)))]

\* PlayerDB.update over the first n players of the section
RECURSIVE db_update(_, _, _, _, _)
db_update(d, ps, sec, tname, n) ==
    IF n = 0 THEN d
    ELSE LET d1 == db_update(d, ps, sec, tname, n - 1)
             p  == ps[sec[n]]
             rep == IF p.name \in DOMAIN d1.report THEN d1.report[p.name] ELSE << >>
         IN  [players |-> Put(d1.players, p.name, from_tournament_player(p)),
              report |-> Put(d1.report, p.name,
                             Put(rep, tname, report_from_tournament_player(p)))]

\* the loop body without p.is_unrated = False
adjust_player_keeping_unrated(p, dbp, date) ==
    LET p1 == [p EXCEPT !.init_rating = dbp.rating,
                        !.init_rating_deviation = dbp.deviation,
                        !.career_games = @ + dbp.games,
                        !.last_played = dbp.last_played]
        adj == adjust_initial_deviation(p1, date)
    IN  [error |-> adj.error, player |-> [adj.player EXCEPT !.last_played = date]]

\* the body of the loop of PlayerDB.adjust_tournament for a player the
\* registry holds: [error, player]
adjust_player(p, dbp, date) ==
    LET p1 == [p EXCEPT !.init_rating = dbp.rating,
                        !.init_rating_deviation = dbp.deviation,
                        !.career_games = @ + dbp.games,
                        !.is_unrated = FALSE,
                        !.last_played = dbp.last_played]
        adj == adjust_initial_deviation(p1, date)
    IN  [error |-> adj.error, player |-> [adj.player EXCEPT !.last_played = date]]

\* PlayerDB.adjust_tournament over the first n players of the section:
\* [error, players]
RECURSIVE adjust_tournament(_, _, _, _, _)
adjust_tournament(d, ps, sec, date, n) ==
    IF n = 0 THEN [error |-> FALSE, players |-> ps]
    ELSE LET before == adjust_tournament(d, ps, sec, date, n - 1)
             name   == sec[n]
             Keep(a) == [error |-> a.error,
                         players |-> [before.players EXCEPT ![name] = a.player]]
         IN  IF before.error \/ name \notin DOMAIN d.players THEN before
             ELSE Keep(adjust_player(before.players[name], d.players[name], date))

\* Tournament(rat_file, res_file, name, date) for the next tournament: a new
\* PlayerList and a new reader
DbBegin ==
    /\ pc = "idle"
    /\ tno < Len(tours)
    /\ tno' = tno + 1
    /\ ratfile' = tours[tno + 1].ratfile
    /\ resfile' = tours[tno + 1].resfile
    /\ tournament_date' = tours[tno + 1].date
    /\ players' = << >>
    /\ order' = << >>
    /\ results' = << >>
    /\ section' = << >>
    /\ pc' = IF tours[tno + 1].ratfile.rows = <<>> THEN "parse" ELSE "load"
    /\ UNCHANGED <<seedvars, output, caller, db, tours, touvars, multiplier>>

\* self.adjust_tournament(t); by hand t.calc_ratings() is called next
DbAdjust ==
    /\ pc = "constructed"
    /\ \E a \in {adjust_tournament(db, players, section, tournament_date, Len(section))} :
           /\ players' = a.players
           /\ pc' = IF a.error THEN "error"
                    ELSE IF caller = "by_hand" THEN "calc" ELSE "adjusted"
    /\ UNCHANGED <<ratfile, resfile, tournament_date, order, results, section,
                   seedvars, output, dbvars, touvars, multiplier>>

\* t.calc_ratings(_BETA) in process_one_tournament: calc_ratings(self) takes
\* no argument, the call raises TypeError and update is not reached
DbCalcRatingsBeta ==
    /\ pc = "adjusted"
    /\ pc' = "error"
    /\ UNCHANGED <<ratfile, resfile, tournament_date, players, order, results,
                   section, seedvars, output, dbvars, touvars, multiplier>>

\* self.update(t)
DbUpdate ==
    /\ pc = "done"
    /\ caller = "by_hand"
    /\ db' = db_update(db, players, section, tno, Len(section))
    /\ pc' = "idle"
    /\ UNCHANGED <<ratfile, resfile, tournament_date, players, order, results,
                   section, seedvars, output, caller, tours, tno, touvars, multiplier>>

NextDB ==
    \/ DbBegin
    \/ LoadRatingRow
    \/ ParseRow
    \/ ParseFinish
    \/ DbAdjust
    \/ DbCalcRatingsBeta
    \/ SeedBegin
    \/ SeedWhile
    \/ SeedPlayer
    \/ SeedIterEnd
    \/ RatePlayer
    \/ DbUpdate

Tour(rf, res, date) == [ratfile |-> rf, resfile |-> res, date |-> date]

\* the first tournament: no ratings file, a csv or a .RT ratings file
DbFirstTours ==
    { Tour(rf, res, TOURNAMENT_DATE) :
        rf \in { [kind |-> "none", rows |-> <<>>],
                 [kind |-> "csv", rows |-> <<CsvRow("alice", 1500)>>],
                 [kind |-> "rt",
                  rows |-> <<RtRow("alice", 8, 1800, TOURNAMENT_DATE - 400, 15000)>>] },
        res \in { ResultFile(<< <<"alice", 400, "becky", 300>> >>),
                  ResultFile(<< <<"alice", 300, "becky", 900>> >>),
                  ResultFile(<< <<"alice", 400, "Bye", 50>>,
                                <<"alice", 400, "becky", 300>> >>) } }

\* the second tournament, ten days later; its ratings file may name becky
\* as unrated, and becky may be absent from its results
DbSecondTours ==
    { Tour(rf, res, TOURNAMENT_DATE + 10) :
        rf \in { [kind |-> "none", rows |-> <<>>],
                 [kind |-> "csv", rows |-> <<CsvRow("alice", 1200), CsvRow("becky", 0)>>],
                 [kind |-> "rt",
                  rows |-> <<RtRow("alice", 8, 1800, TOURNAMENT_DATE - 400, 15000)>>] },
        res \in { ResultFile(<< <<"becky", 400, "alice", 300>> >>),
                  ResultFile(<< <<"alice", 350, "carol", 300>> >>) } }

InitDB ==
    /\ caller \in {"process_one_tournament", "by_hand"}
    /\ tours \in { <<t1, t2>> : t1 \in DbFirstTours, t2 \in DbSecondTours }
    /\ tno = 0
    /\ db = [players |-> << >>, report |-> << >>]
    /\ pc = "idle"
    /\ ratfile = [kind |-> "none", rows |-> <<>>]
    /\ resfile = << >>
    /\ tournament_date = 0
    /\ players = << >>
    /\ order = << >>
    /\ results = << >>
    /\ section = << >>
    /\ rated_opponent_avg = RatInt(0)
    /\ converged = FALSE
    /\ iterations = 0
    /\ todo = << >>
    /\ output = << >>
    /\ lineno = 0
    /\ parsed_sections = << >>
    /\ sections = << >>
    /\ multiplier = RatInt(0)

SpecDB == InitDB /\ [][NextDB]_vars

(***************************************************************************)
(* A second set of inputs for the same run: sections of three players, an  *)
(* opponent entered under a bye name, and a ratings file dated after the   *)
(* tournament.                                                             *)
(***************************************************************************)
\* a .RT row for alice last played 36 days after the tournament with a
\* deviation of 60.00: adjust_initial_deviation gives sqrt(3600 - 3600)
RtRowAliceLater == RtRow("alice", 8, 1500, TOURNAMENT_DATE + 36, 6000)

WideRatingFiles ==
    { [kind |-> "none", rows |-> <<>>],
      [kind |-> "csv", rows |-> <<CsvRow("becky", 1500)>>],
      [kind |-> "csv", rows |-> <<CsvRow("alice", 2200), CsvRow("becky", 1500)>>],
      [kind |-> "rt", rows |-> <<RtRow("alice", 150, 1500, TOURNAMENT_DATE - 7, 6000)>>],
      [kind |-> "rt", rows |-> <<RtRowAliceLater>>] }

WideResultFiles ==
    { ResultFile(<< <<"alice", 400, "becky", 300>>, <<"becky", 400, "alice", 300>>,
                    <<"alice", 350, "carol", 300>> >>),
      ResultFile(<< <<"alice", 400, "Bye", 50>>, <<"alice", 400, "becky", 300>> >>),
      ResultFile(<< <<"alice", 400, "becky", 300>>, <<"becky", 350, "carol", 300>> >>),
      ResultFile(<< <<"alice", 400, "Zz Bye", 0>>, <<"becky", 350, "alice", 300>> >>) }

InitWide == \E rf \in WideRatingFiles, res \in WideResultFiles : InitWith(rf, res)

SpecWide == InitWide /\ [][Next]_vars

(***************************************************************************)
(* TouReader (src/rating.py): parse_lines on the lines of a .tou file.     *)
(* The file is [header, lines]; the header is [date, name], the date -1    *)
(* when it does not parse as dd.mm.yyyy.  A line after the header is a     *)
(* section heading "*Name", a name followed by numbers, a blank line or    *)
(* the end-of-file marker; a number stands for its token ("+3" is 3).      *)
(***************************************************************************)
SectionLine(name) == [kind |-> "section", name |-> name, numbers |-> <<>>]

ResultLine(name, numbers) == [kind |-> "result", name |-> name, numbers |-> numbers]

BlankLine == [kind |-> "blank", name |-> "", numbers |-> <<>>]

EndOfFile == [kind |-> "end", name |-> "", numbers |-> <<>>]

\* parse_result_line keeping the win/tie prefix of a score
parse_result_line_prefixed(line) ==
    LET scores == line.numbers
    IN  IF Len(scores) < 2
        THEN [kind |-> "none", player_name |-> line.name, results |-> <<>>]
        ELSE IF Len(scores) % 2 = 1
        THEN [kind |-> "error", player_name |-> line.name, results |-> <<>>]
        ELSE [kind |-> "ok", player_name |-> line.name,
              results |-> [i \in 1..(Len(scores) \div 2) |->
                              [opponent_id |-> scores[2 * i],
                               score |-> scores[2 * i - 1]]]]

\* TouReader.parse_result_line: [kind, player_name, results].  kind is "none"
\* for a high word line (fewer than two numbers) and "error" when the last
\* score has no opponent number after it (scores[i + 1] raises IndexError)
parse_result_line(line) ==
    LET scores == line.numbers
    IN  IF Len(scores) < 2
        THEN [kind |-> "none", player_name |-> line.name, results |-> <<>>]
        ELSE IF Len(scores) % 2 = 1
        THEN [kind |-> "error", player_name |-> line.name, results |-> <<>>]
        ELSE [kind |-> "ok", player_name |-> line.name,
              results |-> [i \in 1..(Len(scores) \div 2) |->
                              [opponent_id |-> scores[2 * i],
                               score |-> scores[2 * i - 1] % 1000]]]

\* list[idx] in Python: the position, counted from 1, that idx selects in a
\* list of n elements (a negative idx counts from the end), 0 for IndexError
PyIndex(n, idx) ==
    IF 0 <= idx /\ idx < n THEN idx + 1
    ELSE IF -n <= idx /\ idx < 0 THEN n + idx + 1
    ELSE 0

\* opp_score=None
NoScore == -1

\* players = [self.player_for_name(pr.player_name) for pr in s.player_results]
RECURSIVE players_for_names(_, _, _, _)
players_for_names(pl, prs, n, date) ==
    IF n = 0 THEN pl
    ELSE LET before == players_for_names(pl, prs, n - 1, date)
         IN  IF before.error THEN before
             ELSE player_for_name(before, prs[n].player_name, date, date)

\* step 1 of process_sections meets an opponent id that players[...] rejects
InvalidOpponent(prs) ==
    \E k \in DOMAIN prs : \E i \in DOMAIN prs[k].results :
        PyIndex(Len(prs), prs[k].results[i].opponent_id - 1) = 0

\* step 1 of process_sections: the (players x rounds) matrix of GameResults
section_results(prs) ==
    [k \in DOMAIN prs |->
        [i \in DOMAIN prs[k].results |->
            GameResult(i,
                       prs[PyIndex(Len(prs), prs[k].results[i].opponent_id - 1)].player_name,
                       prs[k].results[i].score,
                       NoScore)]]

\* the (player, round) pairs in the order the loops of step 2 visit them
RECURSIVE ResultPairs(_, _)
ResultPairs(prs, n) ==
    IF n = 0 THEN <<>>
    ELSE ResultPairs(prs, n - 1) \o [i \in DOMAIN prs[n].results |-> <<n, i>>]

\* step 2 of process_sections over the first n pairs: [error, sr]; the
\* opponent's row may be too short for the round (IndexError)
RECURSIVE fill_opp_scores(_, _, _, _)
fill_opp_scores(sr, prs, pairs, n) ==
    IF n = 0 THEN [error |-> FALSE, sr |-> sr]
    ELSE LET before == fill_opp_scores(sr, prs, pairs, n - 1)
             result == prs[pairs[n][1]].results[pairs[n][2]]
             opp    == PyIndex(Len(prs), result.opponent_id - 1)
             i      == pairs[n][2]
         IN  IF before.error THEN before
             ELSE IF i > Len(before.sr[opp]) THEN [error |-> TRUE, sr |-> before.sr]
             ELSE [error |-> FALSE,
                   sr |-> [before.sr EXCEPT ![opp][i].opp_score = result.score]]

\* the first game whose opp_score is still None, 0 when there is none
FirstNoScore(games) ==
    LET none == { i \in DOMAIN games : games[i].opp_score = NoScore }
    IN  IF none = {} THEN 0 ELSE CHOOSE i \in none : \A j \in none : i <= j

\* step 3 of process_sections over the first n players: [error, players].
\* GameResult.spread on a game without opp_score raises TypeError, after
\* update_career_games and the games before it were tallied
RECURSIVE tally_section(_, _, _, _)
tally_section(ps, prs, sr, n) ==
    IF n = 0 THEN [error |-> FALSE, players |-> ps]
    ELSE LET before == tally_section(ps, prs, sr, n - 1)
             name   == prs[n].player_name
             p      == [before.players[name] EXCEPT !.games = sr[n]]
             stop   == FirstNoScore(sr[n])
         IN  IF before.error THEN before
             ELSE IF stop = 0
             THEN [error |-> FALSE,
                   players |-> [before.players EXCEPT ![name] = tally_results(p)]]
             ELSE [error |-> TRUE,
                   players |-> [before.players EXCEPT ![name] =
                       add_game_results(update_career_games(p, Len(p.games)), stop - 1)]]

\* the body of the loop of process_sections for one parsed section:
\* [status, players, order]; status is "exit" for sys.exit(1) and "error"
\* for an exception nothing catches
process_section(pl, s, date) ==
    LET prs   == s.player_results
        pl1   == players_for_names(pl, prs, Len(prs), date)
        fill  == fill_opp_scores(section_results(prs), prs,
                                 ResultPairs(prs, Len(prs)),
                                 Len(ResultPairs(prs, Len(prs))))
        tally == tally_section(pl1.players, prs, fill.sr, Len(prs))
        Out(status, ps) == [status |-> status, players |-> ps, order |-> pl1.order]
    IN  IF pl1.error THEN [status |-> "error", players |-> pl.players, order |-> pl.order]
        ELSE IF InvalidOpponent(prs) THEN Out("exit", pl1.players)
        ELSE IF fill.error THEN Out("error", pl1.players)
        ELSE IF tally.error THEN Out("error", tally.players)
        ELSE Out("ok", tally.players)

\* where parse_lines goes on after the line before line n of the results
AfterLine(n, ps) ==
    IF n <= Len(resfile.lines) THEN "tou_results"
    ELSE IF ps = <<>> THEN "parsed" ELSE "tou_process"

\* TouReader.parse_header: an unparsable date is replaced by today's
TouParseHeader ==
    /\ pc = "tou_header"
    /\ \E today \in {TOURNAMENT_DATE, TOURNAMENT_DATE + 1} :
           tournament_date' = IF resfile.header.date < 0 THEN today
                              ELSE resfile.header.date
    /\ lineno' = 1
    /\ pc' = AfterLine(1, << >>)
    /\ UNCHANGED <<ratfile, resfile, players, order, results, section, seedvars,
                   output, dbvars, parsed_sections, sections, multiplier>>

\* TouReader.parse_results, one line of the loop
TouParseLine ==
    /\ pc = "tou_results"
    /\ LET line == resfile.lines[lineno]
           pr   == parse_result_line(line)
           last == Len(parsed_sections)
       IN  CASE line.kind = "blank" ->
                  /\ pc' = AfterLine(lineno + 1, parsed_sections)
                  /\ UNCHANGED parsed_sections
             [] line.kind = "end" ->
                  /\ pc' = AfterLine(Len(resfile.lines) + 1, parsed_sections)
                  /\ UNCHANGED parsed_sections
             [] line.kind = "section" ->
                  /\ parsed_sections' =
                         Append(parsed_sections,
                                [name |-> line.name, player_results |-> <<>>])
                  /\ pc' = AfterLine(lineno + 1, parsed_sections')
             [] line.kind = "result" /\ pr.kind = "none" ->
                  /\ pc' = AfterLine(lineno + 1, parsed_sections)
                  /\ UNCHANGED parsed_sections
             [] line.kind = "result" /\ pr.kind = "error" ->
                  /\ pc' = "error"
                  /\ UNCHANGED parsed_sections
             [] line.kind = "result" /\ pr.kind = "ok" ->
                  IF last = 0
                  THEN /\ pc' = "error"           \* sections[-1]: IndexError
                       /\ UNCHANGED parsed_sections
                  ELSE /\ parsed_sections' =
                              [parsed_sections EXCEPT ![last].player_results =
                                  Append(@, [player_name |-> pr.player_name,
                                             results |-> pr.results])]
                       /\ pc' = AfterLine(lineno + 1, parsed_sections')
    /\ lineno' = lineno + 1
    /\ UNCHANGED <<ratfile, resfile, tournament_date, players, order, results,
                   section, seedvars, output, dbvars, sections, multiplier>>

\* TouReader.process_sections, one section of the loop
TouProcessSection ==
    /\ pc = "tou_process"
    /\ LET k == Len(sections) + 1
       IN  \E r \in {process_section(PL, parsed_sections[k], tournament_date)} :
               /\ players' = r.players
               /\ order' = r.order
               /\ IF r.status = "ok"
                  THEN /\ sections' =
                              Append(sections,
                                     [i \in DOMAIN parsed_sections[k].player_results |->
                                         parsed_sections[k].player_results[i].player_name])
                       /\ pc' = IF k < Len(parsed_sections) THEN "tou_process"
                                ELSE "parsed"
                  ELSE /\ pc' = r.status
                       /\ UNCHANGED sections
    /\ UNCHANGED <<ratfile, resfile, tournament_date, results, section, seedvars,
                   output, dbvars, lineno, parsed_sections, multiplier>>

NextTou ==
    \/ TouParseHeader
    \/ TouParseLine
    \/ TouProcessSection

\* the most rounds of a generated .tou file
MaxRounds == 2

TouNames == <<"alice", "becky", "carol", "dave">>

\* a round of four players: who meets whom, by number
Matchings == { <<2, 1, 4, 3>>, <<3, 4, 1, 2>>, <<4, 3, 2, 1>> }

\* what the first player and its opponent have recorded: a win and a loss,
\* a tie, a loss and a win recorded without prefix
Outcomes == { <<2400, 300>>, <<1350, 1350>>, <<300, 410>> }

\* what the players of the other game have recorded, lower number first
OtherGame == <<2450, 420>>

\* the number player k has recorded in a round with matching m and outcome o
Recorded(m, o, k) ==
    IF k = 1 THEN o[1]
    ELSE IF m[k] = 1 THEN o[2]
    ELSE IF k < m[k] THEN OtherGame[1] ELSE OtherGame[2]

RECURSIVE RoundNumbers(_, _, _)
RoundNumbers(rounds, k, n) ==
    IF n = 0 THEN <<>>
    ELSE RoundNumbers(rounds, k, n - 1)
            \o <<Recorded(rounds[n][1], rounds[n][2], k), rounds[n][1][k]>>

TouHeader == [date |-> TOURNAMENT_DATE, name |-> "Glorious Towel Day Tournament"]

TouFile(lines) == [header |-> TouHeader, lines |-> lines]

\* one section of four players over the given rounds
PairedFile(rounds) ==
    TouFile(<<SectionLine("A")>>
            \o [k \in 1..4 |-> ResultLine(TouNames[k], RoundNumbers(rounds, k, Len(rounds)))])

PairedFiles ==
    { PairedFile(rounds) :
        rounds \in UNION { [1..n -> Matchings \X Outcomes] : n \in 1..MaxRounds } }

\* TOUFILE of src/tests/test_tou.py
TestTouFile ==
    TouFile(<<SectionLine("A"),
              ResultLine("Arthur Dent", <<2500, 2, 1300, 3, 2450, 4>>),
              ResultLine("Bertie Wooster", <<450, 1, 250, 4, 2550, 3>>),
              ResultLine("Sgt. Fred Colon", <<200, 4, 1300, 1, 400, 2>>),
              ResultLine("Obelix", <<2400, 3, 2300, 2, 200, 1>>),
              EndOfFile,
              BlankLine,
              BlankLine>>)

\* files off the pattern: opponent numbers 0 and 3 among two players, a
\* cycle of three, a player nobody names, rows of different lengths, a score
\* without opponent, a high word line before and after the first section
\* heading, two sections, a header whose date does not parse
OddTouFiles ==
    { TouFile(<<SectionLine("A"), ResultLine("alice", <<2400, 0>>),
                ResultLine("becky", <<300, 1>>)>>),
      TouFile(<<SectionLine("A"), ResultLine("alice", <<2400, 3>>),
                ResultLine("becky", <<300, 1>>)>>),
      TouFile(<<SectionLine("A"), ResultLine("alice", <<2400, 2>>),
                ResultLine("becky", <<300, 3>>), ResultLine("carol", <<350, 1>>)>>),
      TouFile(<<SectionLine("A"), ResultLine("alice", <<2400, 2>>),
                ResultLine("becky", <<300, 1>>), ResultLine("carol", <<350, 1>>)>>),
      TouFile(<<SectionLine("A"), ResultLine("alice", <<2400, 2, 2400, 2>>),
                ResultLine("becky", <<300, 1>>)>>),
      TouFile(<<SectionLine("A"), ResultLine("alice", <<2400, 2, 2400>>),
                ResultLine("becky", <<300, 1>>)>>),
      TouFile(<<ResultLine("QUIXOTIC", <<212>>), ResultLine("alice", <<2400, 2>>),
                ResultLine("becky", <<300, 1>>)>>),
      TouFile(<<SectionLine("A"), ResultLine("QUIXOTIC", <<212>>),
                ResultLine("alice", <<2400, 2>>), ResultLine("becky", <<300, 1>>)>>),
      TouFile(<<SectionLine("A"), ResultLine("alice", <<2400, 2>>),
                ResultLine("becky", <<300, 1>>),
                SectionLine("B"), ResultLine("carol", <<1350, 2>>),
                ResultLine("dave", <<1350, 1>>)>>),
      [header |-> [date |-> -1, name |-> "T"],
       lines |-> <<SectionLine("A"), ResultLine("alice", <<2400, 2>>),
                   ResultLine("becky", <<300, 1>>)>>],
      TouFile(<<>>) }

TouFiles == PairedFiles \cup {TestTouFile} \cup OddTouFiles

\* PlayerList() as in the test, or PlayerList(ratfile) with alice rated and
\* last seen a week before the tournament
TouPlayerLists ==
    { << >>,
      [n \in {"alice"} |->
          read_player(RtRow("alice", 150, 1500, TOURNAMENT_DATE - 7, 6000))] }

\* TouReader(player_list) before parse_lines; tournament_date is not set yet
InitTou ==
    /\ resfile \in TouFiles
    /\ players \in TouPlayerLists
    /\ order = IF players = << >> THEN << >> ELSE <<"alice">>
    /\ ratfile = [kind |-> "none", rows |-> <<>>]
    /\ tournament_date = 0
    /\ results = << >>
    /\ section = << >>
    /\ pc = "tou_header"
    /\ rated_opponent_avg = RatInt(0)
    /\ converged = FALSE
    /\ iterations = 0
    /\ todo = << >>
    /\ output = << >>
    /\ caller = "parse_lines"
    /\ db = << >>
    /\ tours = << >>
    /\ tno = 0
    /\ lineno = 0
    /\ parsed_sections = << >>
    /\ sections = << >>
    /\ multiplier = RatInt(0)

SpecTou == InitTou /\ [][NextTou]_vars

(***************************************************************************)
(* RatingsCalculator._player_multiplier on its own: one rated player, the  *)
(* prior rating around the bands and every number of career games up to a  *)
(* bound.                                                                  *)
(***************************************************************************)
MaxCareerGames == 1200

MultiplierRatings == {1500, 1800, 1801, 2000, 2001, 2200}

\* multiplier = self._player_multiplier(player)
CalcMultiplier ==
    /\ pc = "multiplier"
    /\ multiplier' = player_multiplier(players["alice"])
    /\ pc' = "multiplied"
    /\ UNCHANGED <<ratfile, resfile, tournament_date, players, order, results,
                   section, seedvars, output, dbvars, touvars>>

NextMultiplier == CalcMultiplier

InitMultiplier ==
    /\ \E r \in MultiplierRatings, g \in 0..MaxCareerGames :
           players = [n \in {"alice"} |->
                         NewPlayer("alice", RatInt(r), MAX_VARIANCE, g, FALSE,
                                   TOURNAMENT_DATE)]
    /\ order = <<"alice">>
    /\ ratfile = [kind |-> "none", rows |-> <<>>]
    /\ resfile = << >>
    /\ tournament_date = TOURNAMENT_DATE
    /\ results = << >>
    /\ section = <<"alice">>
    /\ pc = "multiplier"
    /\ rated_opponent_avg = RatInt(0)
    /\ converged = FALSE
    /\ iterations = 0
    /\ todo = << >>
    /\ output = << >>
    /\ caller = "calc_new_rating_for_player"
    /\ db = << >>
    /\ tours = << >>
    /\ tno = 0
    /\ lineno = 0
    /\ parsed_sections = << >>
    /\ sections = << >>
    /\ multiplier = RatInt(0)

SpecMultiplier == InitMultiplier /\ [][NextMultiplier]_vars

(***************************************************************************)
(* RatingsCalculator.calc_new_rating_for_player on its own: alice, rated,  *)
(* with a deviation between 0.01 and 150 and up to MaxGames games against  *)
(* becky, as a .RT ratings file dated on the tournament day and a results  *)
(* file give them.                                                         *)
(***************************************************************************)
MaxGames == 2

\* deviations in hundredths: 0.01, 5.00, 15.00, 60.00, 150.00
UpdateDeviations == {1, 500, 1500, 6000, 15000}

OpponentDeviations == {1, 6000, 15000}

UpdateRatings == {1500, 2100}

\* alice's scores against becky: a win, a loss, a forfeit
UpdateScores == { <<400, 300>>, <<300, 420>>, <<400, 0>> }

UpdateGames ==
    UNION { [1..n -> UpdateScores] : n \in 0..MaxGames }

UpdatePlayers(r, d, od, scores) ==
    [n \in {"alice", "becky"} |->
        IF n = "alice"
        THEN [NewPlayer("alice", RatInt(r), Var(d), 8, FALSE, TOURNAMENT_DATE)
                 EXCEPT !.games = [i \in DOMAIN scores |->
                                      GameResult(i, "becky", scores[i][1], scores[i][2])]]
        ELSE [NewPlayer("becky", RatInt(1500), Var(od), 8, FALSE, TOURNAMENT_DATE)
                 EXCEPT !.games = [i \in DOMAIN scores |->
                                      GameResult(i, "alice", scores[i][2], scores[i][1])]]]

\* rc.calc_new_rating_for_player(alice)
CalcNewRatingForPlayer ==
    /\ pc = "update"
    /\ \E b \in {RateBody(players, "alice")} :
           /\ players' = b.players
           /\ pc' = IF b.error THEN "error" ELSE "updated"
    /\ UNCHANGED <<ratfile, resfile, tournament_date, order, results, section,
                   seedvars, output, dbvars, touvars, multiplier>>

NextUpdate == CalcNewRatingForPlayer

InitUpdate ==
    /\ \E r \in UpdateRatings, d \in UpdateDeviations, od \in OpponentDeviations,
          scores \in UpdateGames :
           players = UpdatePlayers(r, d, od, scores)
    /\ order = <<"alice", "becky">>
    /\ ratfile = [kind |-> "rt", rows |-> <<>>]
    /\ resfile = << >>
    /\ tournament_date = TOURNAMENT_DATE
    /\ results = << >>
    /\ section = <<"alice", "becky">>
    /\ pc = "update"
    /\ rated_opponent_avg = RatInt(0)
    /\ converged = FALSE
    /\ iterations = 0
    /\ todo = << >>
    /\ output = << >>
    /\ caller = "calc_new_rating_for_player"
    /\ db = << >>
    /\ tours = << >>
    /\ tno = 0
    /\ lineno = 0
    /\ parsed_sections = << >>
    /\ sections = << >>
    /\ multiplier = RatInt(0)

SpecUpdate == InitUpdate /\ [][NextUpdate]_vars

(***************************************************************************)
(* Properties.  A step that calls calc_new_rating_for_player is a          *)
(* SeedPlayer step (the loop of calc_initial_ratings, on an unrated        *)
(* player) or a RatePlayer step (Tournament.calc_ratings, on a rated       *)
(* player); in both the player is Head(todo).                              *)
(***************************************************************************)
SectionNames == { section[i] : i \in DOMAIN section }

\* the run is past Tournament.calc_ratings
Rated == pc \in {"done", "written"}

\* C1: every call of the single-player update, in the seeding loop or on a
\* rated player afterwards, leaves that player's new_rating at 300 or more
C1_FloorAfterUpdate ==
    [][(pc \in {"seed_for", "rate"} /\ todo # <<>> /\ pc' # "error")
          => RatLeq(RatInt(300), players'[Head(todo)].new_rating)]_vars

\* a rated player below the floor was updated and now stands on the floor
C1_Witness ==
    /\ Rated
    /\ \E n \in SectionNames :
          /\ ~players[n].is_unrated
          /\ RatLess(players[n].init_rating, RatInt(300))
          /\ players[n].new_rating = RatInt(300)

\* C2: every player held by the player list has init_rating_deviation at
\* most MAX_DEVIATION, at every point of the run
C2_DeviationCeiling ==
    \A n \in DOMAIN players : players[n].init_rating_deviation <= MAX_VARIANCE

\* C3: every player held by the player list has new_rating at least 300,
\* and so has every row the ratings file writer emitted
C3_NewRatingFloor ==
    /\ \A n \in DOMAIN players : RatLeq(RatInt(300), players[n].new_rating)
    /\ \A i \in DOMAIN output : RatLeq(RatInt(300), output[i].new_rating)

\* p has no counted game: each of its games is against itself or has a
\* score of 0
NoCountedGame(p) ==
    \A i \in DOMAIN p.games :
        \/ p.games[i].opponent = p.name
        \/ p.games[i].score = 0
        \/ p.games[i].opp_score = 0

\* d, in hundredths, is the square root of the variance v rounded to two
\* decimals
IsRoundedSqrt(d, v) ==
    /\ d = 0 \/ (2 * d - 1) * (2 * d - 1) <= 4 * v
    /\ 4 * v < (2 * d + 1) * (2 * d + 1)

\* C4 as stated: the update of a rated player with no counted game gives
\* new_rating = init_rating and new_rating_deviation = init_rating_deviation
C4_ZeroGameNoOp ==
    [][(pc = "rate" /\ pc' # "error" /\ NoCountedGame(players[Head(todo)]))
          => /\ players'[Head(todo)].new_rating = players[Head(todo)].init_rating
             /\ players'[Head(todo)].new_rating_deviation =
                    players[Head(todo)].init_rating_deviation]_vars

\* C4 amended: the update of a rated player with no counted game gives
\* new_rating = max(init_rating, 300) and new_rating_deviation =
\* init_rating_deviation rounded to two decimals
C4_ZeroGameRounded ==
    [][(pc = "rate" /\ pc' # "error" /\ NoCountedGame(players[Head(todo)]))
          => LET before == players[Head(todo)]
                 after  == players'[Head(todo)]
             IN  /\ RatIsInt(before.init_rating)
                 /\ after.new_rating =
                       (IF RatLess(before.init_rating, RatInt(300))
                        THEN RatInt(300) ELSE before.init_rating)
                 /\ \E d \in 0..2 * MAX_DEVIATION :
                       /\ after.new_rating_deviation = d * d
                       /\ IsRoundedSqrt(d, before.init_rating_deviation)]_vars

\* a rated player with no counted game was updated and its deviation, just
\* inflated for inactivity, came out rounded
C4_Witness ==
    /\ Rated
    /\ \E n \in SectionNames :
          /\ ~players[n].is_unrated
          /\ players[n].games # <<>>
          /\ NoCountedGame(players[n])
          /\ players[n].new_rating = players[n].init_rating
          /\ players[n].new_rating_deviation < players[n].init_rating_deviation
          /\ players[n].init_rating_deviation < MAX_VARIANCE

\* the section holds unrated players only, and at least two of them
AllUnratedSection ==
    /\ Len(section) >= 2
    /\ \A n \in SectionNames : players[n].is_unrated

\* C5: on a section of unrated players only, calc_initial_ratings raises
\* nothing, makes at most 50 iterations, and leaves every player where one
\* more single-player update moves its rating by less than EPS
C5_SeedingConverges ==
    AllUnratedSection =>
        /\ pc # "error"
        /\ iterations <= MAX_ITERATIONS
        /\ Rated => \A n \in SectionNames :
                        WithinEps(calc_new_rating(players, n).new_rating,
                                  players[n].init_rating)

\* every game of p is against another player
NoSelfGame(p) == \A i \in DOMAIN p.games : p.games[i].opponent # p.name

\* the section is two players who play only each other
HeadToHead ==
    /\ Len(section) = 2
    /\ \A n \in SectionNames : NoSelfGame(players[n])

\* the games of p in which both scores are nonzero, as indices
ScoredGames(p) ==
    { i \in DOMAIN p.games : p.games[i].score # 0 /\ p.games[i].opp_score # 0 }

\* the spread of p summed over the first n games with both scores nonzero
RECURSIVE ScoredSpread(_, _)
ScoredSpread(p, n) ==
    IF n = 0 THEN 0
    ELSE ScoredSpread(p, n - 1)
         + (IF n \in ScoredGames(p) THEN p.games[n].score - p.games[n].opp_score ELSE 0)

\* C6 as stated: of two unrated players who play only each other, after
\* seeding the one with negative cumulative spread is below 1500 and the one
\* with positive cumulative spread is above 1500
C6_SpreadSignStrict ==
    (Rated /\ HeadToHead /\ AllUnratedSection) =>
        \A n \in SectionNames :
            /\ players[n].spread < 0 => RatLess(players[n].init_rating, RatInt(1500))
            /\ players[n].spread > 0 => RatLess(RatInt(1500), players[n].init_rating)

\* C6 amended: with S the spread of a player over its k games with both
\* scores nonzero, S < 0 gives init_rating <= 1500 and S > 0 gives
\* init_rating >= 1500; the inequality is strict for a player with fewer
\* than 200 career games when 50 * |S| > (5 + k) * (10 + k)
C6_SpreadSign ==
    (Rated /\ HeadToHead /\ AllUnratedSection) =>
        \A n \in SectionNames :
            LET p == players[n]
                S == ScoredSpread(p, Len(p.games))
                k == Cardinality(ScoredGames(p))
                strict == p.career_games < 200 /\ 50 * Abs(S) > (5 + k) * (10 + k)
            IN  /\ S < 0 => RatLeq(p.init_rating, RatInt(1500))
                /\ S > 0 => RatLeq(RatInt(1500), p.init_rating)
                /\ (S < 0 /\ strict) => RatLess(p.init_rating, RatInt(1500))
                /\ (S > 0 /\ strict) => RatLess(RatInt(1500), p.init_rating)

\* two unrated players were seeded: the winner of their games stands above
\* 1500 and the loser below
C6_Witness ==
    /\ Rated /\ HeadToHead /\ AllUnratedSection
    /\ \E n, m \in SectionNames :
          /\ ScoredSpread(players[n], Len(players[n].games)) > 0
          /\ ScoredSpread(players[m], Len(players[m].games)) < 0
          /\ RatLess(RatInt(1500), players[n].init_rating)
          /\ RatLess(players[m].init_rating, RatInt(1500))

\* the run is inside calc_initial_ratings
Seeding == pc \in {"calc", "seed_while", "seed_for"}

\* C7: no step of calc_initial_ratings changes init_rating,
\* init_rating_deviation or is_unrated of a rated player; on a section with
\* no unrated player no step changes any player, and the loop is left after
\* one pass
C7_SeedingFrame ==
    [][Seeding =>
          /\ \A n \in DOMAIN players :
                ~players[n].is_unrated =>
                    /\ players'[n].init_rating = players[n].init_rating
                    /\ players'[n].init_rating_deviation = players[n].init_rating_deviation
                    /\ players'[n].is_unrated = players[n].is_unrated
          /\ (\A n \in SectionNames : ~players[n].is_unrated) =>
                /\ players' = players
                /\ (pc = "seed_while" /\ pc' # "seed_for") => iterations = 1]_vars

\* calc_initial_ratings has returned on a section with a rated player and
\* an unrated player whom it moved off 1500
C7_Witness ==
    /\ pc = "rate"
    /\ iterations >= 1
    /\ \E n, m \in SectionNames :
          /\ ~players[n].is_unrated
          /\ players[m].is_unrated
          /\ players[m].init_rating # RatInt(UNRATED_INIT_RATING)

\* calc_initial_ratings has returned
Seeded == pc \in {"rate", "done", "written"}

\* r is the rated and u the unrated player of a section of two who play
\* only each other
RatedVsUnrated(r, u) ==
    /\ HeadToHead
    /\ r \in SectionNames /\ ~players[r].is_unrated
    /\ u \in SectionNames /\ players[u].is_unrated

\* C8 as stated: an unrated player with positive cumulative spread against
\* the one rated player is seeded above that player's rating
C8_UnratedAboveRatedStrict ==
    Seeded =>
        \A r, u \in DOMAIN players :
            (RatedVsUnrated(r, u) /\ players[u].spread > 0)
                => RatLess(players[r].init_rating, players[u].init_rating)

\* C8 amended: when the loop ended by convergence, the rated player's
\* deviation is at most 150 and the unrated player has fewer than 200
\* career games, then with S > 0 the unrated player's spread over its k
\* games with both scores nonzero, U.init_rating >= R.init_rating, and
\* U.init_rating > R.init_rating when 10 * S > 10 + k
C8_UnratedAboveRated ==
    (Seeded /\ converged) =>
        \A r, u \in DOMAIN players :
            (/\ RatedVsUnrated(r, u)
             /\ players[r].init_rating_deviation <= MAX_VARIANCE
             /\ players[u].career_games < 200)
            => LET S == ScoredSpread(players[u], Len(players[u].games))
                   k == Cardinality(ScoredGames(players[u]))
               IN  /\ S > 0 => RatLeq(players[r].init_rating, players[u].init_rating)
                   /\ 10 * S > 10 + k
                         => RatLess(players[r].init_rating, players[u].init_rating)

\* seeding converged with the unrated player, who outscored a rated player
\* above 1500, seeded above that player
C8_Witness ==
    /\ Seeded /\ converged
    /\ \E r, u \in DOMAIN players :
          /\ RatedVsUnrated(r, u)
          /\ players[r].init_rating_deviation <= MAX_VARIANCE
          /\ players[u].career_games < 200
          /\ 10 * ScoredSpread(players[u], Len(players[u].games))
                > 10 + Cardinality(ScoredGames(players[u]))
          /\ RatLess(RatInt(1500), players[r].init_rating)
          /\ RatLess(players[r].init_rating, players[u].init_rating)

\* C9: after seeding the unrated opponent, the update of the one rated
\* player of a head-to-head section leaves new_rating = init_rating
C9_RatedUnchanged ==
    Rated =>
        \A r, u \in DOMAIN players :
            RatedVsUnrated(r, u) => players[r].new_rating = players[r].init_rating

\* a and b are the two rated players of a section of two who play only each
\* other, with k > 0 games between them
RatedPair(a, b) ==
    /\ HeadToHead
    /\ a \in SectionNames /\ b \in SectionNames /\ a # b
    /\ ~players[a].is_unrated /\ ~players[b].is_unrated

\* mu_a > mu_b + beta * s / k, for k > 0
AboveExpectation(a, b, s, k) ==
    RatLess(RatInt(k * players[b].init_rating.num + beta * s),
            RatInt(k * players[a].init_rating.num))

\* C10 as stated: when A's prior rating is above B's prior rating plus beta
\* times A's mean spread, the update lowers A and raises B
C10_DirectionStrict ==
    Rated =>
        \A a, b \in DOMAIN players :
            (/\ RatedPair(a, b)
             /\ players[a].games # <<>>
             /\ AboveExpectation(a, b, players[a].spread, Len(players[a].games)))
            => /\ RatLess(players[a].new_rating, players[a].init_rating)
               /\ RatLess(players[b].init_rating, players[b].new_rating)

\* C10 amended: with S the spread of A over the k > 0 games in which both
\* scores are nonzero, mu_A > mu_B + beta * S / k gives B.new_rating >=
\* B.init_rating and, for mu_A >= 300, A.new_rating <= A.init_rating; both
\* are strict when both deviations are 150, both players have fewer than 200
\* career games, mu_A > 300 and 2 * (k * (mu_A - mu_B) - beta * S) > 10 + k
C10_Direction ==
    Rated =>
        \A a, b \in DOMAIN players :
            LET A == players[a]
                B == players[b]
                S == ScoredSpread(A, Len(A.games))
                k == Cardinality(ScoredGames(A))
                strict == /\ A.init_rating_deviation = MAX_VARIANCE
                          /\ B.init_rating_deviation = MAX_VARIANCE
                          /\ A.career_games < 200 /\ B.career_games < 200
                          /\ RatLess(RatInt(300), A.init_rating)
                          /\ 2 * (k * (A.init_rating.num - B.init_rating.num) - beta * S)
                                > 10 + k
            IN  (RatedPair(a, b) /\ k > 0 /\ AboveExpectation(a, b, S, k))
                => /\ RatLeq(B.init_rating, B.new_rating)
                   /\ RatLeq(RatInt(300), A.init_rating)
                         => RatLeq(A.new_rating, A.init_rating)
                   /\ strict => /\ RatLess(B.init_rating, B.new_rating)
                                /\ RatLess(A.new_rating, A.init_rating)

\* two rated players with the same prior were updated: the loser is below
\* its prior and the winner above
C10_Witness ==
    /\ Rated
    /\ \E a, b \in DOMAIN players :
          /\ RatedPair(a, b)
          /\ players[a].init_rating = players[b].init_rating
          /\ ScoredSpread(players[a], Len(players[a].games)) < 0
          /\ RatLess(players[a].new_rating, players[a].init_rating)
          /\ RatLess(players[b].init_rating, players[b].new_rating)

\* the games of p whose opponent is unrated, as indices
UnratedOpponentGames(p) ==
    { i \in DOMAIN p.games : players[p.games[i].opponent].is_unrated }

\* at least 40% of the opponents of p, one per game, are unrated
MostlyUnrated(p) ==
    /\ UnratedOpponentGames(p) # {}
    /\ 10 * Cardinality(UnratedOpponentGames(p)) >= 4 * Len(p.games)

\* the player list as the update of player n reads it when n was first reset
\* to the rated average
ResetTo(n, avg) ==
    [players EXCEPT ![n].init_rating = avg, ![n].init_rating_deviation = MAX_VARIANCE]

NonByeRows(res, name) ==
    { i \in DOMAIN res :
        \/ res[i].winner = name /\ res[i].opp # name /\ res[i].opp \notin BYES
        \/ res[i].opp = name /\ res[i].winner # name /\ res[i].winner \notin BYES }

\* the non-bye games of name over the first n tournaments
RECURSIVE NonByeGames(_, _)
NonByeGames(name, n) ==
    IF n = 0 THEN 0
    ELSE NonByeGames(name, n - 1) + Cardinality(NonByeRows(tours[n].resfile, name))

\* the call of process_one_tournament on tournament tno has ended: it
\* raised, or (by hand) update has run
Processed ==
    /\ tno > 0
    /\ \/ pc = "idle"
       \/ pc = "error" /\ caller = "process_one_tournament"

\* the registry holds, for every player with a non-bye game in the
\* tournaments begun so far, the number of those games
CareerGamesCounted ==
    \A name \in {"alice", "becky", "carol"} :
        NonByeGames(name, tno) > 0
            => /\ name \in DOMAIN db.players
               /\ db.players[name].games = NonByeGames(name, tno)

\* C12: no step lowers a career-game count the registry holds, and once
\* process_one_tournament has ended on the N-th tournament the registry
\* holds for every player the number of its non-bye games in the N
\* tournaments
C12_CareerGames ==
    [][/\ \A name \in DOMAIN db.players :
             /\ name \in DOMAIN db'.players
             /\ db'.players[name].games >= db.players[name].games
       /\ Processed' => CareerGamesCounted']_vars

\* the games of a list that are not against a bye entry
WithoutByes(games) == SelectSeq(games, LAMBDA g : g.opponent \notin BYES)

\* C13: a game against an opponent entered under a bye name adds nothing to
\* career_games when the results are tallied, and the update of a rated
\* player gives what it gives without that game, whatever its scores
C13_ByeExcluded ==
    [][/\ (pc = "parse" /\ resfile = <<>> /\ pc' # "error")
             => \A i \in DOMAIN results :
                   players'[results[i].name].career_games =
                       players[results[i].name].career_games
                       + Len(SelectSeq(WithoutByes(results[i].games),
                                       LAMBDA g : g.opponent # results[i].name))
       /\ (pc = "rate" /\ pc' # "error")
             => players'[Head(todo)].new_rating =
                   calc_new_rating(
                       [players EXCEPT ![Head(todo)].games = WithoutByes(@)],
                       Head(todo)).new_rating]_vars

\* the variance of a stored deviation after days of inactivity:
\* min(sqrt(deviation^2 + c^2 * days), MAX_DEVIATION), squared
Inflated(v, days) ==
    IF v + c_inactive * c_inactive * 10000 * days < MAX_VARIANCE
    THEN v + c_inactive * c_inactive * 10000 * days ELSE MAX_VARIANCE

\* the tournament has been adjusted and is being rated, or has been rated
InRating == pc \in {"adjusted", "calc", "seed_while", "seed_for", "rate", "done"}

\* C14: when the call of process_one_tournament has ended, the registry
\* holds the new_rating and new deviation of every player of the tournament;
\* and while a tournament is rated, a player the registry already held has
\* the stored rating as init_rating and the stored deviation, inflated for
\* the days since the stored last_played, as init_rating_deviation
C14_CarryForward ==
    /\ Processed =>
          \A n \in SectionNames :
              /\ n \in DOMAIN db.players
              /\ db.players[n].rating = players[n].new_rating
              /\ db.players[n].deviation = players[n].new_rating_deviation
    /\ (InRating /\ caller # "run_cli") =>
          \A n \in SectionNames \cap DOMAIN db.players :
              /\ players[n].init_rating = db.players[n].rating
              /\ players[n].init_rating_deviation =
                     Inflated(db.players[n].deviation,
                              tournament_date - db.players[n].last_played)

C16_ErrorDoesNotAbort ==
    [][(pc \in {"seed_for", "rate"} /\ todo # <<>>) => pc' # "error"]_vars

\* the rating, the deviation (as a variance) and the unrated flag that the
\* reader of the ratings file hands to the player it constructs from a row
RowRating(row) == row.rating

RowVariance(kind, row) ==
    IF kind = "csv" THEN MAX_VARIANCE
    ELSE IF row.deviation < 0 THEN MAX_VARIANCE ELSE row.deviation * row.deviation

RowUnrated(kind, row) == kind = "csv" /\ row.rating = 0

\* C17: set_init_rating, called for every row of the ratings file: a rating
\* below 100 makes the player unrated at 1500, a rating of 100 or more is
\* stored as given and leaves is_unrated as it was, and a deviation of 0
\* becomes MAX_DEVIATION
C17_SetInitRating ==
    [][pc = "load" =>
         LET row == Head(ratfile.rows)
             p   == players'[row.name]
         IN  /\ RowRating(row) < 100 =>
                   p.is_unrated /\ p.init_rating = RatInt(1500)
             /\ RowRating(row) >= 100 =>
                   /\ p.init_rating = RatInt(RowRating(row))
                   /\ p.is_unrated = RowUnrated(ratfile.kind, row)
             /\ RowVariance(ratfile.kind, row) = 0 =>
                   p.init_rating_deviation = 225000000
             /\ RowVariance(ratfile.kind, row) # 0 =>
                   p.init_rating_deviation = RowVariance(ratfile.kind, row)]_vars

\* the .RT row with rating 50 and deviation 0 has been loaded
C17_Witness ==
    /\ pc = "parse"
    /\ ratfile.kind = "rt"
    /\ "alice" \in DOMAIN players
    /\ players["alice"].career_games = 300
    /\ players["alice"].is_unrated
    /\ players["alice"].init_rating = RatInt(1500)
    /\ players["alice"].init_rating_deviation = 225000000

\* C18: no step removes a name from the registry, find_or_add_player (the
\* reading of a results row) removes no name from the player list, and
\* PlayerDB.update leaves the entry of every player outside the tournament
\* as it was
C18_RegistryGrows ==
    [][/\ DOMAIN db.players \subseteq DOMAIN db.players'
       /\ pc = "parse" => DOMAIN players \subseteq DOMAIN players'
       /\ (pc = "done" /\ pc' = "idle") =>
             \A n \in DOMAIN db.players \ SectionNames :
                 db.players'[n] = db.players[n]]_vars

\* the second tournament has been entered in the registry, which still holds
\* becky, who did not play in it
C18_Witness ==
    /\ pc = "idle"
    /\ tno = 2
    /\ {"alice", "becky", "carol"} \subseteq DOMAIN db.players
    /\ 2 \in DOMAIN db.report["alice"]
    /\ 2 \notin DOMAIN db.report["becky"]

\* the rows of a .tou file that list a player, section by section, among
\* the first n lines
RECURSIVE ListedRows(_, _)
ListedRows(lines, n) ==
    IF n = 0 THEN <<>>
    ELSE LET before == ListedRows(lines, n - 1)
         IN  IF lines[n].kind = "section" THEN Append(before, <<>>)
             ELSE IF lines[n].kind = "result" /\ Len(lines[n].numbers) >= 2
                     /\ before # <<>>
             THEN [before EXCEPT ![Len(before)] = Append(@, lines[n])]
             ELSE before

\* every row that lists a player comes after a section heading and gives an
\* opponent number with every score
WellFormed(lines) ==
    \A n \in DOMAIN lines :
        (lines[n].kind = "result" /\ Len(lines[n].numbers) >= 2) =>
            /\ Len(lines[n].numbers) % 2 = 0
            /\ \E m \in 1..(n - 1) : lines[m].kind = "section"

RowRounds(row) == 1..(Len(row.numbers) \div 2)

ListedOpponent(row, r) == row.numbers[2 * r]

\* the recorded value without its win/tie prefix, the thousands
StrippedScore(row, r) ==
    row.numbers[2 * r - 1] - 1000 * (row.numbers[2 * r - 1] \div 1000)

\* in every round the opponent a player lists is a player of the section
\* who lists that player back
SymmetricPairings(rows) ==
    \A a \in DOMAIN rows : \A r \in RowRounds(rows[a]) :
        /\ ListedOpponent(rows[a], r) \in DOMAIN rows
        /\ r \in RowRounds(rows[ListedOpponent(rows[a], r)])
        /\ ListedOpponent(rows[ListedOpponent(rows[a], r)], r) = a

\* no player is listed twice in the file
ListedOnce(secs) ==
    \A k1, k2 \in DOMAIN secs : \A a1 \in DOMAIN secs[k1], a2 \in DOMAIN secs[k2] :
        secs[k1][a1].name = secs[k2][a2].name => (k1 = k2 /\ a1 = a2)

\* C19: parse_lines on a file with symmetric pairings returns, and then for
\* every listed player and round the game has the recorded score without
\* its prefix, the listed opponent and that opponent's score of the round;
\* wins and losses are 1 per decided game and 0.5 each per tie
C19_TouGames ==
    LET secs == ListedRows(resfile.lines, Len(resfile.lines))
    IN  (/\ pc \in {"parsed", "exit", "error"}
         /\ WellFormed(resfile.lines)
         /\ ListedOnce(secs)
         /\ \A k \in DOMAIN secs : SymmetricPairings(secs[k]))
        => /\ pc = "parsed"
           /\ \A k \in DOMAIN secs : \A a \in DOMAIN secs[k] :
                LET row  == secs[k][a]
                    P    == players[row.name]
                    Opp(r) == secs[k][ListedOpponent(row, r)]
                    won  == { r \in RowRounds(row) :
                                StrippedScore(row, r) > StrippedScore(Opp(r), r) }
                    tied == { r \in RowRounds(row) :
                                StrippedScore(row, r) = StrippedScore(Opp(r), r) }
                    lost == { r \in RowRounds(row) :
                                StrippedScore(row, r) < StrippedScore(Opp(r), r) }
                IN  /\ DOMAIN P.games = RowRounds(row)
                    /\ \A r \in RowRounds(row) :
                          /\ P.games[r].score = StrippedScore(row, r)
                          /\ P.games[r].opponent = Opp(r).name
                          /\ P.games[r].opp_score = StrippedScore(Opp(r), r)
                    /\ P.wins2 = 2 * Cardinality(won) + Cardinality(tied)
                    /\ P.losses2 = 2 * Cardinality(lost) + Cardinality(tied)

\* the file of test_basic has been parsed: Arthur Dent met Bertie Wooster
\* 500 - 450 in round 1 and has 2.5 wins and 0.5 losses
C19_Witness ==
    /\ pc = "parsed"
    /\ resfile = TestTouFile
    /\ players["Arthur Dent"].games[1] = GameResult(1, "Bertie Wooster", 500, 450)
    /\ players["Arthur Dent"].wins2 = 5
    /\ players["Arthur Dent"].losses2 = 1

\* the rated players of the section
RatedNames == { n \in SectionNames : ~players[n].is_unrated }

\* the sum of init_rating over a set of players
RECURSIVE InitRatingSum(_)
InitRatingSum(S) ==
    IF S = {} THEN RatInt(0)
    ELSE LET n == CHOOSE x \in S : TRUE
         IN  RatAdd(players[n].init_rating, InitRatingSum(S \ {n}))

SameRat(a, b) == a.num * b.den = b.num * a.den

\* C20: the rated average that calc_initial_ratings seeds with is the sum
\* of init_rating over the rated players of the section divided by their
\* number, and 1500 when no player is rated or that mean is below 300
C20_RatedAverage ==
    [][(pc = "calc" /\ pc' = "seed_while") =>
         LET sum  == InitRatingSum(RatedNames)
             mean == [num |-> sum.num, den |-> sum.den * Cardinality(RatedNames)]
         IN  IF RatedNames = {} \/ mean.num < 300 * mean.den
             THEN SameRat(rated_opponent_avg', RatInt(1500))
             ELSE SameRat(rated_opponent_avg', mean)]_vars

\* the players that the row being read looks up
RowNames == IF resfile = <<>> THEN {} ELSE {Head(resfile).winner, Head(resfile).opp}

\* C21: the lookup of a rated player whose last_played is after the
\* tournament date raises nothing and does not lower the deviation
C21_NegativeDaysClamped ==
    [][pc = "parse" =>
         \A n \in RowNames \cap DOMAIN players :
             (~players[n].is_unrated /\ players[n].last_played > tournament_date) =>
                 /\ pc' # "error"
                 /\ players'[n].init_rating_deviation >= players[n].init_rating_deviation]_vars

\* the reader has looked player n up before: a row naming n was read
LookedUp(n) == \E i \in DOMAIN results : results[i].name = n

\* min(sqrt(deviation^2 + 100 * days), 150) as a variance in 1/10000
InflatedOnce(v, days) ==
    IF v + 1000000 * days < 225000000 THEN v + 1000000 * days ELSE 225000000

\* C22: while the results are read, the first lookup of a rated player
\* inflates its deviation by the days since last_played and stamps
\* last_played with the tournament date; any further lookup leaves the
\* deviation as it is, and so does every lookup of an unrated player
C22_InflatedOnce ==
    [][(pc = "parse" /\ pc' # "error") =>
         \A n \in DOMAIN players' :
             IF n \notin DOMAIN players
             THEN /\ players'[n].is_unrated
                  /\ players'[n].init_rating_deviation = 225000000
             ELSE IF n \in RowNames /\ ~players[n].is_unrated /\ ~LookedUp(n)
             THEN /\ players'[n].init_rating_deviation =
                        InflatedOnce(players[n].init_rating_deviation,
                                     tournament_date - players[n].last_played)
                  /\ players'[n].last_played = tournament_date
             ELSE players'[n].init_rating_deviation = players[n].init_rating_deviation]_vars

\* alice, rated with deviation 60 and last seen a week before, has been
\* looked up for her row and again after the rows: 60^2 + 100 * 7 = 4300
C22_Witness ==
    /\ pc = "calc"
    /\ "alice" \in DOMAIN players
    /\ ~players["alice"].is_unrated
    /\ players["alice"].init_rating_deviation = 43000000
    /\ players["alice"].last_played = tournament_date

\* C23: once a rated player is being rated no seeding step follows; a
\* rating step assigns a new rating to one rated player that had none and
\* touches no other player, so an unrated player gets no second pass; when
\* calc_ratings is over every rated player of the section has the rating
\* computed from the seeded ratings the unrated players ended with, and
\* every unrated player has new_rating equal to the rating its last
\* seeding iteration fed back
C23_SeedingThenRating ==
    [][/\ pc \in {"rate", "done"} => pc' \notin {"calc", "seed_while", "seed_for"}
       /\ (pc = "rate" /\ pc' # "error") =>
              \E n \in RatedNames :
                  /\ players[n].new_rating = RatInt(0)
                  /\ players'[n].new_rating # RatInt(0)
                  /\ \A m \in DOMAIN players \ {n} : players'[m] = players[m]
       /\ (pc \in {"seed_while", "rate"} /\ pc' = "done") =>
              \A n \in SectionNames :
                  IF players'[n].is_unrated
                  THEN players'[n].new_rating = players'[n].init_rating
                  ELSE players'[n].new_rating = calc_new_rating(players', n).new_rating]_vars

\* calc_ratings is over for a section with a rated and an unrated player,
\* after more than one seeding iteration
C23_Witness ==
    /\ pc = "done"
    /\ iterations >= 2
    /\ \E n \in RatedNames : players[n].new_rating # RatInt(0)
    /\ \E n \in SectionNames : players[n].is_unrated

\* the base multiplier of a prior rating: 0.5 above 2000, 0.75 above 1800
BaseOf(rating) ==
    IF rating.num > 2000 * rating.den THEN [num |-> 1, den |-> 2]
    ELSE IF rating.num > 1800 * rating.den THEN [num |-> 3, den |-> 4]
    ELSE [num |-> 1, den |-> 1]

\* min(base, 1.0 - careerGames / 1800)
MinWithGames(base, games) ==
    IF (1800 - games) * base.den < base.num * 1800
    THEN [num |-> 1800 - games, den |-> 1800] ELSE base

\* C24 as stated: 1.0 below 200 career games, 0.5 above 1000, and the
\* minimum of the base and 1.0 - careerGames/1800 for every number of career
\* games above 100 and up to 1000
C24_MultiplierFrom100 ==
    pc = "multiplied" =>
        LET p == players["alice"]
        IN  /\ p.career_games < 200 => SameRat(multiplier, RatInt(1))
            /\ p.career_games > 1000 => SameRat(multiplier, [num |-> 1, den |-> 2])
            /\ (100 < p.career_games /\ p.career_games <= 1000) =>
                   SameRat(multiplier, MinWithGames(BaseOf(p.init_rating), p.career_games))

\* C24, amended: 1.0 below 200 career games whatever the rating, 0.5 above
\* 1000, and the minimum of the base and 1.0 - careerGames/1800 from 200 to
\* 1000 career games
C24_MultiplierFrom200 ==
    pc = "multiplied" =>
        LET p == players["alice"]
        IN  /\ p.career_games < 200 => SameRat(multiplier, RatInt(1))
            /\ p.career_games > 1000 => SameRat(multiplier, [num |-> 1, den |-> 2])
            /\ (200 <= p.career_games /\ p.career_games <= 1000) =>
                   SameRat(multiplier, MinWithGames(BaseOf(p.init_rating), p.career_games))

\* the multiplier of a player rated 1801 with 600 career games, where
\* 1.0 - 600/1800 is below the base 0.75
C24_Witness ==
    /\ pc = "multiplied"
    /\ players["alice"].init_rating = RatInt(1801)
    /\ players["alice"].career_games = 600
    /\ SameRat(multiplier, [num |-> 2, den |-> 3])

\* C25: a section that process_sections has processed and appended has no
\* opponent number outside 1..number of players of the section
C25_UnknownOpponentFatal ==
    \A k \in DOMAIN sections :
        \A a \in DOMAIN parsed_sections[k].player_results :
            \A i \in DOMAIN parsed_sections[k].player_results[a].results :
                parsed_sections[k].player_results[a].results[i].opponent_id
                    \in 1..Len(parsed_sections[k].player_results)

\* player n has a game that is neither a bye nor a forfeit
HasCountedGame(n) ==
    \E i \in DOMAIN players[n].games :
        /\ players[n].games[i].opponent # n
        /\ players[n].games[i].score # 0
        /\ players[n].games[i].opp_score # 0

\* C26: every seeding update of an unrated player with a counted game
\* leaves it with the new deviation that the single-player update computed,
\* which is below the deviation it started from
C26_SeededDeviation ==
    [][(pc = "seed_for" /\ todo # <<>> /\ pc' # "error" /\ HasCountedGame(Head(todo))) =>
         LET n == Head(todo)
         IN  /\ \E ps1 \in {players, ResetTo(n, rated_opponent_avg)} :
                    players'[n].new_rating_deviation =
                        calc_new_rating(ps1, n).new_rating_deviation
             /\ players'[n].new_rating_deviation < players[n].init_rating_deviation]_vars

\* a player without what calc_new_rating_for_player assigns
WithoutNewRating(p) == [p EXCEPT !.new_rating = RatInt(0), !.new_rating_deviation = 0]

\* C27: the rating of a rated player changes nothing but that player's
\* new_rating and new_rating_deviation, and so leaves what the update of
\* every player still to be rated computes as it was: the results do not
\* depend on the order of the rating pass
C27_WritesOnlyNewRating ==
    [][(pc = "rate" /\ todo # <<>>) =>
         /\ \A m \in DOMAIN players \ {Head(todo)} : players'[m] = players[m]
         /\ WithoutNewRating(players'[Head(todo)]) = WithoutNewRating(players[Head(todo)])
         /\ \A i \in 2..Len(todo) :
                calc_new_rating(players', todo[i]) = calc_new_rating(players, todo[i])]_vars

\* the first of two rated players that met has been rated, the second is
\* about to be
C27_Witness ==
    /\ pc = "rate"
    /\ Len(todo) = 1
    /\ \E n \in RatedNames \ {Head(todo)} :
           /\ players[n].new_rating # RatInt(0)
           /\ \E i \in DOMAIN players[n].games :
                  /\ players[n].games[i].opponent = Head(todo)
                  /\ players[n].games[i].score # 0
                  /\ players[n].games[i].opp_score # 0

\* the 2-decimal rounding of a deviation held as a variance, in hundredths
Hundredths(v) == CHOOSE d \in 0..15001 : (2 * d - 1) * (2 * d - 1) <= 4 * v
                                         /\ 4 * v < (2 * d + 1) * (2 * d + 1)

\* C28 as stated: after the update of a player with a deviation in (0, 150]
\* the new deviation is positive, at most the rounded prior deviation, and
\* below the prior deviation whenever a game was counted
C28_NeverLessCertain ==
    pc = "updated" =>
        LET p == players["alice"]
        IN  (0 < p.init_rating_deviation /\ p.init_rating_deviation <= 225000000) =>
                /\ p.new_rating_deviation > 0
                /\ p.new_rating_deviation
                      <= Hundredths(p.init_rating_deviation) * Hundredths(p.init_rating_deviation)
                /\ HasCountedGame("alice") =>
                      p.new_rating_deviation < p.init_rating_deviation

\* C28, amended: after the update of a player with a deviation from 0.01
\* to 150 the new deviation is positive and at most the rounded prior
\* deviation; it is below the prior deviation when a game was
\* counted, the prior deviation is 15 or more and no opponent's deviation
\* is above 150
C28_NeverLessCertainFrom15 ==
    pc = "updated" =>
        LET p == players["alice"]
        IN  (0 < p.init_rating_deviation /\ p.init_rating_deviation <= 225000000) =>
                /\ p.new_rating_deviation > 0
                /\ p.new_rating_deviation
                      <= Hundredths(p.init_rating_deviation) * Hundredths(p.init_rating_deviation)
                /\ (/\ HasCountedGame("alice")
                    /\ p.init_rating_deviation >= 1500 * 1500
                    /\ \A i \in DOMAIN p.games :
                           players[p.games[i].opponent].init_rating_deviation <= 225000000) =>
                      p.new_rating_deviation < p.init_rating_deviation

\* alice, deviation 15.00, was updated on one counted game against an
\* opponent of deviation 150: 14.99
C28_Witness ==
    /\ pc = "updated"
    /\ players["alice"].init_rating_deviation = 1500 * 1500
    /\ players["becky"].init_rating_deviation = 225000000
    /\ Len(players["alice"].games) = 1
    /\ HasCountedGame("alice")
    /\ players["alice"].new_rating_deviation = 1499 * 1499

\* C29: whenever calc_new_rating_for_player is about to run for a player,
\* that player's init_rating_deviation is positive, and the call does not
\* end in a division by zero
C29_PositiveDeviation ==
    [][(pc \in {"seed_for", "rate"} /\ todo # <<>>) =>
         /\ players[Head(todo)].init_rating_deviation > 0
         /\ pc' # "error"]_vars

\* the multiplier of a player who differs from p in career games only
MultiplierWithGames(p, games) == player_multiplier([p EXCEPT !.career_games = games])

\* C30: the multiplier of a player is at most the multiplier of the same
\* player with fewer career games
C30_MultiplierNonIncreasing ==
    pc = "multiplied" =>
        \A fewer \in 0..players["alice"].career_games :
            LET less == MultiplierWithGames(players["alice"], fewer)
            IN  multiplier.num * less.den <= less.num * multiplier.den

=============================================================================
